---- MODULE Spec2Model ----
(***************************************************************************)
(* axum-anyhow: the ApiError builder, the request enrichment context kept  *)
(* in a thread-local slot, the ErrorInterceptor middleware and the global  *)
(* error hook.                                                             *)
(*                                                                         *)
(* The specifications share the pure operators below:                      *)
(*   Spec      the middleware: requests polled on worker threads;          *)
(*   SpecApi   one thread driving the builder, the context and the hook;   *)
(*   SpecHook  threads racing on_error against build() on the RwLock;      *)
(*   SpecNest  hooks and enrichers that call back into the library or      *)
(*             panic;                                                      *)
(*   SpecMap   the mapping operations, the helpers, ApiError::default();   *)
(*   SpecFrom  the expose flag and the conversion From<E> for ApiError;    *)
(*   SpecValue a builder chain, build(), into_response(), into_error();    *)
(*   SpecLayers  nested ErrorInterceptor layers around one handler;        *)
(*   SpecExpose  the mapping operations under every flag and variable;     *)
(*   SpecEnrich  build() and its callers under overriding enrichers.       *)
(***************************************************************************)
EXTENDS Integers, Sequences, FiniteSets, TLC

VARIABLES
    ENRICHMENT_CONTEXT, \* thread-local slot of each worker: Option<EnrichmentContext>
    ERROR_HOOK,         \* the value kept behind the RwLock: Option<ErrorHook>
    task,               \* Spec: the future ErrorInterceptor::call returned, per request
    polling,            \* Spec: the request a worker is polling now, 0 when none
    lastBuild,          \* the most recent build() call and what it saw
    hook_count,         \* the counter each installed hook closure increments
    built,              \* build() calls made after each on_error call and before the next
    installed,          \* the hooks given to on_error so far, in call order
    lock,               \* the RwLock around ERROR_HOOK
    thr,                \* where each thread stands in build() or on_error()
    EXPOSE_ERRORS,      \* the AtomicBool set_expose_errors stores into
    env,                \* the environment variable AXUM_ANYHOW_EXPOSE_ERRORS: Option<String>
    toggled             \* the argument of the latest set_expose_errors call, None before the first

vars == <<ENRICHMENT_CONTEXT, ERROR_HOOK, task, polling, lastBuild,
          hook_count, built, installed, lock, thr, EXPOSE_ERRORS, env,
          toggled>>
mwVars == <<task, polling>>
hookVars == <<lock, thr>>
countVars == <<hook_count, built, installed>>
flagVars == <<EXPOSE_ERRORS, env, toggled>>

----------------------------------------------------------------------------
(* Bounds of the model *)

NumWorkers == 2
NumRequests == 2
MaxHooks == 2
MaxBuilds == 3

Workers == 1..NumWorkers
Requests == 1..NumRequests
Hooks == 1..MaxHooks

----------------------------------------------------------------------------
(* Option<T>: None is the empty sequence, Some(x) the one-element sequence *)

None == <<>>
Some(x) == <<x>>
is_some(o) == Len(o) = 1
is_none(o) == Len(o) = 0
unwrap(o) == o[1]
unwrap_or(o, d) == IF is_some(o) THEN o[1] ELSE d

----------------------------------------------------------------------------
(* StatusCode values and the default texts of build() *)

INTERNAL_SERVER_ERROR == 500
NOT_FOUND == 404
BAD_REQUEST == 400
DefaultTitle == "Internal Error"
DefaultDetail == "Something went wrong"

----------------------------------------------------------------------------
(* ApiErrorBuilder *)

ApiErrorBuilder_default ==
    [status |-> None, title |-> None, detail |-> None, meta |-> None, error |-> None]

builder_status(self, s) == [self EXCEPT !.status = Some(s)]
builder_title(self, t) == [self EXCEPT !.title = Some(t)]
builder_detail(self, d) == [self EXCEPT !.detail = Some(d)]
builder_error(self, e) == [self EXCEPT !.error = Some(e)]

\* meta() with a slip: the keys of a meta already set are kept beside the new.
builder_meta_merging(self, m) ==
    IF is_some(self.meta)
    THEN [self EXCEPT !.meta =
              Some([k \in DOMAIN unwrap(self.meta) \cup DOMAIN m |->
                       IF k \in DOMAIN m THEN m[k] ELSE unwrap(self.meta)[k]])]
    ELSE [self EXCEPT !.meta = Some(m)]

builder_meta(self, m) == [self EXCEPT !.meta = Some(m)]

----------------------------------------------------------------------------
(* RequestSnapshot and the enrichers *)

\* The requests of the model: request r is a distinct method and URI.
Request(r) ==
    [method |-> IF r % 2 = 1 THEN "GET" ELSE "POST",
     uri |-> r,
     headers |-> <<>>]

from_request(request) ==
    [method |-> request.method, uri |-> request.uri, headers |-> request.headers]

\* json!({"method": .., "uri": ..})
json_method_uri(req) == [method |-> req.method, uri |-> req.uri]

\* The enricher closures the repository uses: the one of test_error_enricher
\* and of the ErrorInterceptorLayer example sets meta from the snapshot, the
\* one of test_request_data_lifecycle returns the builder as it is.
\* A third closure of the same type fills the title from the snapshot when
\* the builder it receives has none.
\* Two more closures of that type: "override" sets status, title and detail,
\* "fresh" returns ApiError::builder() in place of the builder it was given.
Enrichers == {"meta_from_request", "identity", "title_if_unset"}

call_enricher(enricher, builder, req) ==
    CASE enricher = "meta_from_request" -> builder_meta(builder, json_method_uri(req))
      [] enricher = "title_if_unset" ->
            IF is_none(builder.title) THEN builder_title(builder, req.method) ELSE builder
      [] enricher = "override" ->
            builder_detail(builder_title(builder_status(builder, NOT_FOUND), "Overridden"),
                           "Overridden detail")
      [] enricher = "fresh" -> ApiErrorBuilder_default
      [] OTHER -> builder

EnrichmentContext_new(request, enricher) == [request |-> request, enricher |-> enricher]

\* EnrichmentContext::apply: the enricher's result, and the call it made.
apply(self, builder) ==
    [builder |-> call_enricher(self.enricher, builder, self.request),
     calls |-> <<[enricher |-> self.enricher, builder |-> builder, request |-> self.request]>>]

\* invoke with a slip: the enricher runs, its result is dropped.
invoke_discard(data, builder) ==
    IF is_some(data)
    THEN [builder |-> builder, calls |-> apply(unwrap(data), builder).calls]
    ELSE [builder |-> builder, calls |-> <<>>]

\* EnrichmentContext::invoke on the slot `data` of the calling thread.
invoke(data, builder) ==
    IF is_some(data)
    THEN apply(unwrap(data), builder)
    ELSE [builder |-> builder, calls |-> <<>>]

----------------------------------------------------------------------------
(* The hook *)

\* invoke_hook with a slip: the hook runs twice.
invoke_hook_twice(guard, error) ==
    IF is_some(guard)
    THEN <<[hook |-> unwrap(guard), error |-> error], [hook |-> unwrap(guard), error |-> error]>>
    ELSE <<>>

\* invoke_hook on the value `guard` read under the lock: the calls made.
invoke_hook(guard, error) ==
    IF is_some(guard)
    THEN <<[hook |-> unwrap(guard), error |-> error]>>
    ELSE <<>>

----------------------------------------------------------------------------
(* ApiErrorBuilder::build *)

\* Defaulting with a slip: the status is the default whatever was set.
finish_status_500(self) ==
    [status |-> INTERNAL_SERVER_ERROR,
     title |-> unwrap_or(self.title, DefaultTitle),
     detail |-> unwrap_or(self.detail, DefaultDetail),
     meta |-> self.meta,
     error |-> self.error]

\* Defaulting with a slip: an unset detail is left empty.
finish_empty_detail(self) ==
    [status |-> unwrap_or(self.status, INTERNAL_SERVER_ERROR),
     title |-> unwrap_or(self.title, DefaultTitle),
     detail |-> unwrap_or(self.detail, ""),
     meta |-> self.meta,
     error |-> self.error]

\* Defaulting: the ApiError made of the builder after the enrichment step.
finish(self) ==
    [status |-> unwrap_or(self.status, INTERNAL_SERVER_ERROR),
     title |-> unwrap_or(self.title, DefaultTitle),
     detail |-> unwrap_or(self.detail, DefaultDetail),
     meta |-> self.meta,
     error |-> self.error]

\* build() with a slip: the hook is given the error made before enrichment.
build_hook_first(self, data, guard) ==
    LET inv == invoke(data, self)
    IN [error |-> finish(inv.builder),
        enricher_calls |-> inv.calls,
        hook_calls |-> invoke_hook(guard, finish(self))]

\* build() with a slip: the defaults are filled in before the enricher runs.
build_default_first(self, data, guard) ==
    LET filled == [self EXCEPT !.status = Some(unwrap_or(self.status, INTERNAL_SERVER_ERROR)),
                               !.title = Some(unwrap_or(self.title, DefaultTitle)),
                               !.detail = Some(unwrap_or(self.detail, DefaultDetail))]
        inv == invoke(data, filled)
        error == finish(inv.builder)
    IN [error |-> error,
        enricher_calls |-> inv.calls,
        hook_calls |-> invoke_hook(guard, error)]

\* build() on a thread whose context slot holds `data`, with `guard` in the
\* hook slot: the returned error, the enricher calls and the hook calls.
build(self, data, guard) ==
    LET inv == invoke(data, self)
        error == finish(inv.builder)
    IN [error |-> error,
        enricher_calls |-> inv.calls,
        hook_calls |-> invoke_hook(guard, error)]

----------------------------------------------------------------------------
(* Spec: ErrorInterceptor over worker threads *)

\* The enricher the layer was made with.
LayerEnricher == "meta_from_request"

\* The builders the handlers of the model build their errors from.
HandlerBuilders ==
    {builder_detail(builder_title(builder_status(ApiErrorBuilder_default, NOT_FOUND),
                                  "Not Found"), "Resource not found")}

\* The context ErrorInterceptor::call makes for request r.
ContextOf(r) == EnrichmentContext_new(from_request(Request(r)), LayerEnricher)

\* The request whose context `data` holds, 0 when the slot is empty.
OwnerOf(data) ==
    IF is_some(data) THEN CHOOSE r \in Requests : ContextOf(r) = unwrap(data) ELSE 0

\* A build() call by `by` (a request, or 0 for code outside the middleware) on
\* worker w, in `phase`: the slot it read, where the future of the request
\* owning that context stood at that time, and what build() gave.
BuildRecord(by, w, phase, b) ==
    [by |-> by, phase |-> phase,
     slot |-> ENRICHMENT_CONTEXT[w],
     owner_pc |-> IF is_some(ENRICHMENT_CONTEXT[w])
                  THEN task[OwnerOf(ENRICHMENT_CONTEXT[w])].pc ELSE "none",
     builder |-> b,
     out |-> build(b, ENRICHMENT_CONTEXT[w], ERROR_HOOK)]

\* set() with a slip: a context already installed is kept.
EnrichmentContext_set_if_empty(self, w) ==
    ENRICHMENT_CONTEXT' = [ENRICHMENT_CONTEXT EXCEPT ![w] = IF is_some(@) THEN @ ELSE Some(self)]

EnrichmentContext_set(self, w) ==
    ENRICHMENT_CONTEXT' = [ENRICHMENT_CONTEXT EXCEPT ![w] = Some(self)]

EnrichmentContext_clear(w) ==
    ENRICHMENT_CONTEXT' = [ENRICHMENT_CONTEXT EXCEPT ![w] = None]

InitMw ==
    /\ ENRICHMENT_CONTEXT = [w \in Workers |-> None]
    /\ ERROR_HOOK = None
    /\ task = [r \in Requests |-> [pc |-> "new", ctx |-> None, result |-> None]]
    /\ polling = [w \in Workers |-> 0]
    /\ lastBuild = None
    /\ hook_count = <<>>
    /\ built = <<>>
    /\ installed = <<>>
    /\ lock = <<>>
    /\ thr = <<>>
    /\ EXPOSE_ERRORS = <<>>
    /\ env = <<>>
    /\ toggled = <<>>

\* ErrorInterceptor::call on worker w: the snapshot and the context are made,
\* inner.call(request) runs (a service may build an error in it), and the
\* future is returned; nothing of the async block has run yet.
Call(r, w) ==
    /\ task[r].pc = "new"
    /\ polling[w] = 0
    /\ task' = [task EXCEPT ![r].pc = "created", ![r].ctx = Some(ContextOf(r))]
    /\ \E sync \in {None} \cup {Some(b) : b \in HandlerBuilders} :
          lastBuild' = IF is_some(sync)
                       THEN Some(BuildRecord(r, w, "call", unwrap(sync)))
                       ELSE lastBuild
    /\ UNCHANGED <<ENRICHMENT_CONTEXT, ERROR_HOOK, polling, countVars, hookVars, flagVars>>

\* Worker w polls the future of request r. The first poll runs ctx.set();
\* every poll then polls the inner future.
PollStart(r, w) ==
    /\ task[r].pc \in {"created", "pending"}
    /\ polling[w] = 0
    /\ IF task[r].pc = "created"
       THEN EnrichmentContext_set(unwrap(task[r].ctx), w)
       ELSE UNCHANGED ENRICHMENT_CONTEXT
    /\ task' = [task EXCEPT ![r].pc = "polling"]
    /\ polling' = [polling EXCEPT ![w] = r]
    /\ UNCHANGED <<ERROR_HOOK, lastBuild, countVars, hookVars, flagVars>>

\* The handler of request r, running in a poll on worker w, builds an error.
HandlerBuild(r, w) ==
    /\ polling[w] = r
    /\ \E b \in HandlerBuilders : lastBuild' = Some(BuildRecord(r, w, "poll", b))
    /\ UNCHANGED <<ENRICHMENT_CONTEXT, ERROR_HOOK, task, polling, countVars, hookVars, flagVars>>

\* The inner future returns Poll::Pending: the task is suspended at the await.
InnerPending(r, w) ==
    /\ polling[w] = r
    /\ task' = [task EXCEPT ![r].pc = "pending"]
    /\ polling' = [polling EXCEPT ![w] = 0]
    /\ UNCHANGED <<ENRICHMENT_CONTEXT, ERROR_HOOK, lastBuild, countVars, hookVars, flagVars>>

\* The inner future resolves: clear() runs on the polling thread and the
\* result is returned as it is.
InnerReady(r, w) ==
    /\ polling[w] = r
    /\ EnrichmentContext_clear(w)
    /\ \E res \in {"Ok", "Err"} :
          task' = [task EXCEPT ![r].pc = "done", ![r].result = Some(res)]
    /\ polling' = [polling EXCEPT ![w] = 0]
    /\ UNCHANGED <<ERROR_HOOK, lastBuild, countVars, hookVars, flagVars>>

\* The inner future panics in a poll: the future is dropped by the unwinding;
\* the async block holds no guard, so nothing runs for the context.
InnerPanic(r, w) ==
    /\ polling[w] = r
    /\ task' = [task EXCEPT ![r].pc = "panicked"]
    /\ polling' = [polling EXCEPT ![w] = 0]
    /\ UNCHANGED <<ENRICHMENT_CONTEXT, ERROR_HOOK, lastBuild, countVars, hookVars, flagVars>>

\* The future is dropped while suspended (cancellation, timeout).
DropFuture(r) ==
    /\ task[r].pc \in {"created", "pending"}
    /\ task' = [task EXCEPT ![r].pc = "dropped"]
    /\ UNCHANGED <<ENRICHMENT_CONTEXT, ERROR_HOOK, polling, lastBuild, countVars, hookVars, flagVars>>

\* Code that did not pass through the middleware builds an error on worker w.
OutsideBuild(w) ==
    /\ polling[w] = 0
    /\ \E b \in HandlerBuilders : lastBuild' = Some(BuildRecord(0, w, "outside", b))
    /\ UNCHANGED <<ENRICHMENT_CONTEXT, ERROR_HOOK, task, polling, countVars, hookVars, flagVars>>

NextMw ==
    \/ \E r \in Requests, w \in Workers : Call(r, w)
    \/ \E r \in Requests, w \in Workers : PollStart(r, w)
    \/ \E r \in Requests, w \in Workers : HandlerBuild(r, w)
    \/ \E r \in Requests, w \in Workers : InnerPending(r, w)
    \/ \E r \in Requests, w \in Workers : InnerReady(r, w)
    \/ \E r \in Requests, w \in Workers : InnerPanic(r, w)
    \/ \E r \in Requests : DropFuture(r)
    \/ \E w \in Workers : OutsideBuild(w)

Spec == InitMw /\ [][NextMw]_vars

----------------------------------------------------------------------------
(* Claims about the middleware, checked under Spec *)

\* The meta the layer's enricher gives an error built for request r.
MetaOf(r) == Some(json_method_uri(from_request(Request(r))))

\* C1 - context isolation: a build() made by the handler of request r, while
\* the future of r is being polled, is never enriched with the snapshot of
\* another request: the context it reads is the one of r.
C1_ContextIsolation ==
    \A r \in Requests :
        (is_some(lastBuild) /\ unwrap(lastBuild).by = r /\ unwrap(lastBuild).phase = "poll")
            => /\ OwnerOf(unwrap(lastBuild).slot) \in {0, r}
               /\ \A q \in Requests \ {r} : unwrap(lastBuild).out.error.meta # MetaOf(q)

\* C2 - cleanup on normal completion: no build() reads, on any worker, the
\* context of a request whose inner future has already resolved; such a
\* build() finds the owner's context gone.
C2_ClearedAfterCompletion ==
    is_some(lastBuild) => unwrap(lastBuild).owner_pc # "done"

\* C3 - cleanup on abnormal exit: no build() reads, on any worker, the context
\* of a request whose handler panicked or whose future was dropped while it
\* was suspended.
C3_ClearedAfterAbnormalExit ==
    is_some(lastBuild) => unwrap(lastBuild).owner_pc \notin {"panicked", "dropped"}

\* C4 - per-request ordering: every build() issued while handling request r,
\* inside inner.call() or inside a poll, finds the context slot of its thread
\* Installed with the context of r.
C4_InstalledBeforeEveryBuild ==
    \A r \in Requests :
        (is_some(lastBuild) /\ unwrap(lastBuild).by = r)
            => unwrap(lastBuild).slot = Some(ContextOf(r))

----------------------------------------------------------------------------
(* SpecApi: one thread calls on_error, sets and clears the context, builds *)

\* The thread of SpecApi.
ApiThread == CHOOSE w \in Workers : \A v \in Workers : w <= v

\* The builders a caller can reach with the setters, each field set or not.
CallerBuilders ==
    { LET b0 == ApiErrorBuilder_default
          b1 == IF s THEN builder_status(b0, BAD_REQUEST) ELSE b0
          b2 == IF t THEN builder_title(b1, "Test Error") ELSE b1
          b3 == IF d THEN builder_detail(b2, "This is a test") ELSE b2
          b4 == IF m THEN builder_meta(b3, [method |-> "caller", uri |-> 0]) ELSE b3
      IN IF e THEN builder_error(b4, "boom") ELSE b4
      : s \in BOOLEAN, t \in BOOLEAN, d \in BOOLEAN, m \in BOOLEAN, e \in BOOLEAN }

\* on_error with a slip: a hook already installed is kept.
on_error_keep_first(slot, hook) == IF is_some(slot) THEN slot ELSE Some(hook)

\* on_error: the value the slot holds when the write guard is released.
on_error(slot, hook) == Some(hook)

\* The hook of the latest on_error call, 0 before the first.
CurrentHook == IF Len(installed) = 0 THEN 0 ELSE installed[Len(installed)]

RECURSIVE SumTo(_, _)
SumTo(f, n) == IF n < 0 THEN 0 ELSE f[n] + SumTo(f, n - 1)
TotalBuilt == SumTo(built, MaxHooks)

\* The runs of hook h among the hook calls of one build().
RunsOf(h, calls) == Cardinality({i \in 1..Len(calls) : calls[i].hook = h})

InitApi ==
    /\ ENRICHMENT_CONTEXT = [w \in Workers |-> None]
    /\ ERROR_HOOK = None
    /\ lastBuild = None
    /\ hook_count = [h \in Hooks |-> 0]
    /\ built = [h \in 0..MaxHooks |-> 0]
    /\ installed = <<>>
    /\ task = <<>>
    /\ polling = <<>>
    /\ lock = <<>>
    /\ thr = <<>>
    /\ EXPOSE_ERRORS = <<>>
    /\ env = <<>>
    /\ toggled = <<>>

\* on_error(hook): every call installs a closure of its own.
ApiOnError(h) ==
    /\ h = Len(installed) + 1
    /\ ERROR_HOOK' = on_error(ERROR_HOOK, h)
    /\ installed' = Append(installed, h)
    /\ UNCHANGED <<ENRICHMENT_CONTEXT, lastBuild, hook_count, built, mwVars, hookVars, flagVars>>

\* EnrichmentContext::new(snapshot, enricher).set(), with the snapshot of the
\* one request this thread handles.
ApiContextSet(e) ==
    /\ EnrichmentContext_set(EnrichmentContext_new(from_request(Request(ApiThread)), e),
                             ApiThread)
    /\ UNCHANGED <<ERROR_HOOK, lastBuild, countVars, mwVars, hookVars, flagVars>>

\* EnrichmentContext::clear()
ApiContextClear ==
    /\ EnrichmentContext_clear(ApiThread)
    /\ UNCHANGED <<ERROR_HOOK, lastBuild, countVars, mwVars, hookVars, flagVars>>

\* builder.build(): the hook closures that ran have incremented their counters.
ApiBuild(b) ==
    /\ TotalBuilt < MaxBuilds
    /\ LET out == build(b, ENRICHMENT_CONTEXT[ApiThread], ERROR_HOOK)
       IN /\ lastBuild' = Some([builder |-> b,
                                slot |-> ENRICHMENT_CONTEXT[ApiThread],
                                guard |-> ERROR_HOOK,
                                current |-> CurrentHook,
                                out |-> out])
          /\ hook_count' = [h \in Hooks |-> hook_count[h] + RunsOf(h, out.hook_calls)]
    /\ built' = [built EXCEPT ![CurrentHook] = @ + 1]
    /\ UNCHANGED <<ENRICHMENT_CONTEXT, ERROR_HOOK, installed, mwVars, hookVars, flagVars>>

NextApi ==
    \/ \E h \in Hooks : ApiOnError(h)
    \/ \E e \in Enrichers : ApiContextSet(e)
    \/ ApiContextClear
    \/ \E b \in CallerBuilders : ApiBuild(b)

SpecApi == InitApi /\ [][NextApi]_vars

----------------------------------------------------------------------------
(* Claims about build(), the enricher and the hook, checked under SpecApi *)

\* The builder build() goes on with after the enrichment step of a build
\* record: the enricher's result under an installed context, else the input.
EnrichedOf(lb) ==
    IF is_some(lb.slot)
    THEN call_enricher(unwrap(lb.slot).enricher, lb.builder, unwrap(lb.slot).request)
    ELSE lb.builder

\* C5 - enrichment step: under an installed context build() calls the
\* enricher exactly once, with the caller's builder and the installed
\* snapshot, and the error is made of the builder the enricher returned (the
\* meta-setting enricher gives meta = its value); with no context the enricher
\* is not called, the error is made of the caller's builder, meta as set.
C5_EnrichmentStep ==
    is_some(lastBuild) =>
        LET lb == unwrap(lastBuild)
            calls == lb.out.enricher_calls
        IN IF is_some(lb.slot)
           THEN /\ Len(calls) = 1
                /\ calls[1].builder = lb.builder
                /\ calls[1].request = unwrap(lb.slot).request
                /\ calls[1].enricher = unwrap(lb.slot).enricher
                /\ lb.out.error = finish(EnrichedOf(lb))
                /\ unwrap(lb.slot).enricher = "meta_from_request"
                      => lb.out.error.meta = Some(json_method_uri(unwrap(lb.slot).request))
           ELSE /\ Len(calls) = 0
                /\ lb.out.error = finish(lb.builder)
                /\ lb.out.error.meta = lb.builder.meta

\* C5 witness: a build() with no meta set by the caller, under a context
\* whose enricher sets meta, returned that meta.
C5_Witness ==
    /\ is_some(lastBuild)
    /\ is_some(unwrap(lastBuild).slot)
    /\ unwrap(unwrap(lastBuild).slot).enricher = "meta_from_request"
    /\ is_none(unwrap(lastBuild).builder.meta)
    /\ Len(unwrap(lastBuild).out.enricher_calls) = 1
    /\ is_some(unwrap(lastBuild).out.error.meta)

\* C6 - the hook observes the final value: every hook call of a build() is
\* given the very error build() returns, which is the enriched builder with
\* the defaults filled in: status, title and detail are the set value or the
\* default, meta and cause are the enriched builder's.
C6_HookSeesFinalValue ==
    is_some(lastBuild) =>
        LET lb == unwrap(lastBuild)
            calls == lb.out.hook_calls
            enriched == EnrichedOf(lb)
        IN \A i \in 1..Len(calls) :
              /\ calls[i].error = lb.out.error
              /\ calls[i].error.status = unwrap_or(enriched.status, INTERNAL_SERVER_ERROR)
              /\ calls[i].error.title = unwrap_or(enriched.title, DefaultTitle)
              /\ calls[i].error.detail = unwrap_or(enriched.detail, DefaultDetail)
              /\ calls[i].error.meta = enriched.meta
              /\ calls[i].error.error = enriched.error

\* C6 witness: a hook ran on an error whose status was defaulted and whose
\* meta came from the enricher.
C6_Witness ==
    /\ is_some(lastBuild)
    /\ Len(unwrap(lastBuild).out.hook_calls) = 1
    /\ is_some(unwrap(lastBuild).slot)
    /\ is_none(unwrap(lastBuild).builder.status)
    /\ is_none(unwrap(lastBuild).builder.meta)
    /\ unwrap(lastBuild).out.hook_calls[1].error.status = INTERNAL_SERVER_ERROR
    /\ is_some(unwrap(lastBuild).out.hook_calls[1].error.meta)

\* C7 - the enricher runs before defaulting: a field of status, title, detail
\* the caller left unset is unset in the builder the enricher receives, and
\* the error holds, for each of the three, the value the enricher's result has
\* or, when that is unset, the default; so an enricher that fills an unset
\* title gets its title into the error.
C7_EnricherBeforeDefaults ==
    (is_some(lastBuild) /\ is_some(unwrap(lastBuild).slot)) =>
        LET lb == unwrap(lastBuild)
            calls == lb.out.enricher_calls
            ctx == unwrap(lb.slot)
        IN /\ Len(calls) = 1
           /\ \A f \in {"status", "title", "detail"} :
                 is_none(lb.builder[f]) => is_none(calls[1].builder[f])
           /\ LET after == call_enricher(ctx.enricher, calls[1].builder, ctx.request)
              IN /\ lb.out.error.status = unwrap_or(after.status, INTERNAL_SERVER_ERROR)
                 /\ lb.out.error.title = unwrap_or(after.title, DefaultTitle)
                 /\ lb.out.error.detail = unwrap_or(after.detail, DefaultDetail)
           /\ (ctx.enricher = "title_if_unset" /\ is_none(lb.builder.title))
                 => lb.out.error.title = ctx.request.method

\* C7 witness: the caller set no title, the enricher saw none and filled it,
\* and the status it left unset was defaulted afterwards.
C7_Witness ==
    /\ is_some(lastBuild)
    /\ is_some(unwrap(lastBuild).slot)
    /\ unwrap(unwrap(lastBuild).slot).enricher = "title_if_unset"
    /\ is_none(unwrap(lastBuild).builder.title)
    /\ is_none(unwrap(lastBuild).builder.status)
    /\ unwrap(lastBuild).out.error.title = unwrap(unwrap(lastBuild).slot).request.method
    /\ unwrap(lastBuild).out.error.status = INTERNAL_SERVER_ERROR

\* C8 - hook count: a build() that finds a hook in the slot runs that hook
\* exactly once and runs nothing else; the counter of the hook installed last
\* equals the number of build() calls made since it was installed; and while
\* no hook was ever installed build() runs nothing.
C8_HookCount ==
    /\ is_some(lastBuild) =>
          LET lb == unwrap(lastBuild)
              calls == lb.out.hook_calls
          IN IF is_some(lb.guard)
             THEN Len(calls) = 1 /\ calls[1].hook = unwrap(lb.guard)
             ELSE Len(calls) = 0
    /\ CurrentHook # 0 => hook_count[CurrentHook] = built[CurrentHook]
    /\ CurrentHook = 0 => \A h \in Hooks : hook_count[h] = 0

\* C8 witness: one hook installed, MaxBuilds errors built, the hook ran
\* MaxBuilds times.
C8_Witness ==
    /\ Len(installed) = 1
    /\ built[0] = 0
    /\ built[1] = MaxBuilds
    /\ hook_count[1] = MaxBuilds

\* C9 - hook replacement: after on_error(h2) the slot holds h2 alone; a
\* build() made after it runs h2 and only h2; and the counter of every hook
\* that was replaced equals the number of build() calls made between its
\* installation and the next one.
C9_HookReplacement ==
    /\ Len(installed) > 0 => ERROR_HOOK = Some(CurrentHook)
    /\ (is_some(lastBuild) /\ unwrap(lastBuild).current # 0) =>
          LET calls == unwrap(lastBuild).out.hook_calls
          IN /\ Len(calls) = 1
             /\ calls[1].hook = unwrap(lastBuild).current
    /\ \A i \in 1..(Len(installed) - 1) :
          hook_count[installed[i]] = built[installed[i]]

\* C9 witness: a first hook ran once, was replaced, and the second ran once
\* (test_hook_can_be_replaced).
C9_Witness ==
    /\ Len(installed) = 2
    /\ built[1] = 1
    /\ hook_count[1] = 1
    /\ hook_count[2] = 1
    /\ unwrap(lastBuild).out.hook_calls[1].hook = 2

----------------------------------------------------------------------------
(* SpecHook: threads call on_error and build() concurrently; the steps are  *)
(* the acquisitions and releases of the RwLock and what runs between them   *)

\* The slot while `*guard = Some(Box::new(hook))` is being carried out: the
\* old box is dropped and the new one not yet written.
Torn == <<0, 0>>

\* read() with a slip: the reader does not wait for the writer.
can_read_unguarded(l) == TRUE

\* ERROR_HOOK.read() returns once no writer holds the lock.
can_read(l) == l.writer = 0

\* ERROR_HOOK.write() returns once nobody holds the lock.
can_write(l) == l.writer = 0 /\ l.readers = {}

Idle == [pc |-> "idle", hook |-> 0, old |-> None, news |-> {}, called |-> <<>>]

\* on_error calls begun so far: the finished ones and those under way.
OnErrorBegun ==
    Len(installed) + Cardinality({t \in Workers : thr[t].pc \in {"w_acquire", "w_store", "w_write", "w_release"}})

InBuild(t) == thr[t].pc \in {"b_read", "b_hook", "b_release"}

BuildsBegun == TotalBuilt + Cardinality({t \in Workers : InBuild(t)})

InitHook ==
    /\ ENRICHMENT_CONTEXT = [w \in Workers |-> None]
    /\ ERROR_HOOK = None
    /\ lastBuild = None
    /\ hook_count = [h \in Hooks |-> 0]
    /\ built = [h \in 0..MaxHooks |-> 0]
    /\ installed = <<>>
    /\ lock = [writer |-> 0, readers |-> {}, poisoned |-> FALSE, stable |-> None]
    /\ thr = [t \in Workers |-> Idle]
    /\ task = <<>>
    /\ polling = <<>>
    /\ EXPOSE_ERRORS = <<>>
    /\ env = <<>>
    /\ toggled = <<>>

\* Thread t enters on_error with a closure of its own.
OnErrorBegin(t) ==
    /\ thr[t].pc = "idle"
    /\ OnErrorBegun < MaxHooks
    /\ thr' = [thr EXCEPT ![t] = [Idle EXCEPT !.pc = "w_acquire", !.hook = OnErrorBegun + 1]]
    /\ UNCHANGED <<ENRICHMENT_CONTEXT, ERROR_HOOK, lastBuild, countVars, lock, mwVars, flagVars>>

\* ERROR_HOOK.write().expect(..): the guard, or a panic on a poisoned lock.
AcquireWrite(t) ==
    /\ thr[t].pc = "w_acquire"
    /\ can_write(lock)
    /\ IF lock.poisoned
       THEN /\ thr' = [thr EXCEPT ![t].pc = "panicked"]
            /\ UNCHANGED lock
       ELSE /\ thr' = [thr EXCEPT ![t].pc = "w_store"]
            /\ lock' = [lock EXCEPT !.writer = t]
    /\ UNCHANGED <<ENRICHMENT_CONTEXT, ERROR_HOOK, lastBuild, countVars, mwVars, flagVars>>

\* The assignment drops the old value in place ...
StoreDropOld(t) ==
    /\ thr[t].pc = "w_store"
    /\ ERROR_HOOK' = Torn
    /\ thr' = [thr EXCEPT ![t].pc = "w_write"]
    /\ UNCHANGED <<ENRICHMENT_CONTEXT, lastBuild, countVars, lock, mwVars, flagVars>>

\* ... and writes the new one. Every build() under way has now overlapped
\* with the installation of this hook.
StoreWriteNew(t) ==
    /\ thr[t].pc = "w_write"
    /\ ERROR_HOOK' = on_error(ERROR_HOOK, thr[t].hook)
    /\ lock' = [lock EXCEPT !.stable = Some(thr[t].hook)]
    /\ thr' = [u \in Workers |->
                 IF u = t THEN [thr[u] EXCEPT !.pc = "w_release"]
                 ELSE IF InBuild(u) THEN [thr[u] EXCEPT !.news = @ \cup {thr[t].hook}]
                 ELSE thr[u]]
    /\ UNCHANGED <<ENRICHMENT_CONTEXT, lastBuild, countVars, mwVars, flagVars>>

\* The write guard is dropped; on_error returns.
ReleaseWrite(t) ==
    /\ thr[t].pc = "w_release"
    /\ lock' = [lock EXCEPT !.writer = 0]
    /\ installed' = Append(installed, thr[t].hook)
    /\ thr' = [thr EXCEPT ![t] = Idle]
    /\ UNCHANGED <<ENRICHMENT_CONTEXT, ERROR_HOOK, lastBuild, hook_count, built, mwVars, flagVars>>

\* Thread t enters build(): enrichment and defaulting touch nothing shared.
\* `old` is the hook installed at that time.
BuildBegin(t) ==
    /\ thr[t].pc = "idle"
    /\ BuildsBegun < MaxBuilds
    /\ thr' = [thr EXCEPT ![t] = [Idle EXCEPT !.pc = "b_read", !.old = lock.stable]]
    /\ UNCHANGED <<ENRICHMENT_CONTEXT, ERROR_HOOK, lastBuild, countVars, lock, mwVars, flagVars>>

\* ERROR_HOOK.read().expect(..): the guard, or a panic on a poisoned lock.
AcquireRead(t) ==
    /\ thr[t].pc = "b_read"
    /\ can_read(lock)
    /\ IF lock.poisoned
       THEN /\ thr' = [thr EXCEPT ![t].pc = "panicked"]
            /\ UNCHANGED lock
       ELSE /\ thr' = [thr EXCEPT ![t].pc = "b_hook"]
            /\ lock' = [lock EXCEPT !.readers = @ \cup {t}]
    /\ UNCHANGED <<ENRICHMENT_CONTEXT, ERROR_HOOK, lastBuild, countVars, mwVars, flagVars>>

\* guard.as_ref() and the call of the hook. Reading a slot that is being
\* written is undefined: the outcome recorded is a call of hook 0, no hook of
\* the program.
CallHook(t) ==
    /\ thr[t].pc = "b_hook"
    /\ LET out == build(ApiErrorBuilder_default, ENRICHMENT_CONTEXT[t], ERROR_HOOK)
           called == IF ERROR_HOOK = Torn THEN <<0>>
                     ELSE [i \in 1..Len(out.hook_calls) |-> out.hook_calls[i].hook]
       IN /\ thr' = [thr EXCEPT ![t].pc = "b_release", ![t].called = called]
          /\ hook_count' = [h \in Hooks |-> hook_count[h] + RunsOf(h, out.hook_calls)]
    /\ UNCHANGED <<ENRICHMENT_CONTEXT, ERROR_HOOK, lastBuild, built, installed, lock, mwVars, flagVars>>

\* The read guard is dropped; build() returns the error.
ReleaseRead(t) ==
    /\ thr[t].pc = "b_release"
    /\ lock' = [lock EXCEPT !.readers = @ \ {t}]
    /\ lastBuild' = Some([old |-> thr[t].old, news |-> thr[t].news, called |-> thr[t].called])
    /\ built' = [built EXCEPT ![unwrap_or(thr[t].old, 0)] = @ + 1]
    /\ thr' = [thr EXCEPT ![t] = Idle]
    /\ UNCHANGED <<ENRICHMENT_CONTEXT, ERROR_HOOK, hook_count, installed, mwVars, flagVars>>

NextHook ==
    \/ \E t \in Workers : OnErrorBegin(t)
    \/ \E t \in Workers : AcquireWrite(t)
    \/ \E t \in Workers : StoreDropOld(t)
    \/ \E t \in Workers : StoreWriteNew(t)
    \/ \E t \in Workers : ReleaseWrite(t)
    \/ \E t \in Workers : BuildBegin(t)
    \/ \E t \in Workers : AcquireRead(t)
    \/ \E t \in Workers : CallHook(t)
    \/ \E t \in Workers : ReleaseRead(t)

SpecHook == InitHook /\ [][NextHook]_vars

\* C10 - atomic hook swap: a build() that overlaps on_error calls runs at
\* most one hook, a hook of the program (never a slot that is being written),
\* which is the one installed when build() began or one installed while it
\* ran; it runs no hook only if none was installed when it began; no reader
\* holds the lock while the slot is being written; and no thread panics.
C10_AtomicHookSwap ==
    /\ \A t \in Workers : thr[t].pc # "panicked"
    /\ \A t \in lock.readers : ERROR_HOOK # Torn
    /\ \A t \in Workers : \A i \in 1..Len(thr[t].called) : thr[t].called[i] \in Hooks
    /\ is_some(lastBuild) =>
          LET lb == unwrap(lastBuild)
          IN /\ Len(lb.called) <= 1
             /\ \A i \in 1..Len(lb.called) :
                   /\ lb.called[i] \in Hooks
                   /\ Some(lb.called[i]) = lb.old \/ lb.called[i] \in lb.news
             /\ Len(lb.called) = 0 => is_none(lb.old)

\* C10 witness: a build() that began with hook 1 installed overlapped with
\* on_error(2) and ran hook 2, once.
C10_Witness ==
    /\ is_some(lastBuild)
    /\ unwrap(lastBuild).old = Some(1)
    /\ unwrap(lastBuild).news = {2}
    /\ unwrap(lastBuild).called = <<2>>
    /\ hook_count[2] = 1

----------------------------------------------------------------------------
(* SpecNest: build() and on_error() with callbacks that call back into the  *)
(* library or panic. A thread keeps a stack of the calls it is in: build(),  *)
(* and under it what the hook it runs has called.                            *)

\* The hook closures of SpecNest: one that only counts, one that calls
\* on_error from inside, one that builds an error from inside, one that panics.
HookKinds == {"count", "reinstall", "rebuild", "panic"}

\* The enricher closures of SpecNest: one returns the builder, one panics.
NestEnrichers == {"identity", "panic"}

\* std::sync::RwLock leaves open what a thread meets when it asks for a lock
\* it already holds ("might panic") and whether a reader passes a waiting
\* writer. "blocks": the futex lock, the thread waits and readers queue
\* behind a waiting writer. "panics": the acquisition is detected and panics.
Platforms == {"blocks", "panics"}

Frame(op, pc, hook) == [op |-> op, pc |-> pc, hook |-> hook]
Depth(t) == Len(thr[t])
Top(t) == thr[t][Depth(t)]
AtPc(t, pcs) == Depth(t) > 0 /\ Top(t).pc \in pcs

\* Thread t holds a read guard of ERROR_HOOK (invoke_hook keeps `guard`
\* alive until the hook has returned).
HoldsRead(t) == \E d \in 1..2 : <<t, d>> \in lock.readers

\* Threads inside ERROR_HOOK.write() that have not got the guard.
WritersWaiting == {t \in Workers : AtPc(t, {"w_acquire"})}

\* ERROR_HOOK.read() of thread t returns.
nest_can_read(t) ==
    /\ can_read(lock)
    /\ lock.platform = "blocks" => WritersWaiting = {}

\* The threads that have to let go before the acquisition thread t is in can
\* return.
Blockers(t) ==
    IF Top(t).pc = "w_acquire"
    THEN {u \in Workers : HoldsRead(u) \/ lock.writer = u}
    ELSE {u \in Workers : lock.writer = u}
            \cup (IF lock.platform = "blocks" THEN WritersWaiting ELSE {})

\* Thread t is inside read() or write() and the call does not end by a panic.
Acquiring(t) ==
    /\ AtPc(t, {"w_acquire", "b_read"})
    /\ ~(lock.platform = "panics" /\ HoldsRead(t))

\* The sets of threads that wait for each other: each is inside read() or
\* write() and one of the threads it waits for is in the set.
DeadSets ==
    {D \in SUBSET Workers :
        /\ D # {}
        /\ \A t \in D : Acquiring(t) /\ Blockers(t) \cap D # {}}

\* The top call of thread t returns: to the hook that made it, which then
\* returns to invoke_hook, or to the caller of the thread's outermost call.
Return(t) ==
    IF Depth(t) = 1
    THEN /\ thr' = [thr EXCEPT ![t] = <<>>]
         /\ lastBuild' = Some([op |-> Top(t).op, outcome |-> "returned", from |-> "none"])
    ELSE /\ thr' = [thr EXCEPT ![t] = <<[thr[t][1] EXCEPT !.pc = "b_release"]>>]
         /\ UNCHANGED lastBuild

\* A panic raised in thread t by `from`: nothing in build(), invoke_hook,
\* invoke or apply catches it, so it unwinds every call of the thread; the
\* read guards are dropped on the way (a read guard does not poison).
Panic(t, from) ==
    /\ thr' = [thr EXCEPT ![t] = <<>>]
    /\ lock' = [lock EXCEPT !.readers = {g \in @ : g[1] # t}]
    /\ lastBuild' = Some([op |-> thr[t][1].op, outcome |-> "panicked", from |-> from])

InitNest ==
    /\ ENRICHMENT_CONTEXT = [w \in Workers |-> None]
    /\ ERROR_HOOK = None
    /\ lastBuild = None
    /\ \E p \in Platforms : lock = [writer |-> 0, readers |-> {}, platform |-> p]
    /\ thr = [t \in Workers |-> <<>>]
    /\ hook_count = <<>>
    /\ built = <<>>
    /\ installed = <<>>
    /\ task = <<>>
    /\ polling = <<>>
    /\ EXPOSE_ERRORS = <<>>
    /\ env = <<>>
    /\ toggled = <<>>

\* EnrichmentContext::new(snapshot, enricher).set() on the thread that
\* handles a request.
NestContextSet(e) ==
    /\ Depth(ApiThread) = 0
    /\ EnrichmentContext_set(EnrichmentContext_new(from_request(Request(ApiThread)), e),
                             ApiThread)
    /\ UNCHANGED <<ERROR_HOOK, lastBuild, countVars, mwVars, hookVars, flagVars>>

NestContextClear ==
    /\ Depth(ApiThread) = 0
    /\ EnrichmentContext_clear(ApiThread)
    /\ UNCHANGED <<ERROR_HOOK, lastBuild, countVars, mwVars, hookVars, flagVars>>

\* Thread t calls on_error(hook) with a closure of kind k.
NestOnErrorBegin(t, k) ==
    /\ Depth(t) = 0
    /\ thr' = [thr EXCEPT ![t] = <<Frame("on_error", "w_acquire", k)>>]
    /\ UNCHANGED <<ENRICHMENT_CONTEXT, ERROR_HOOK, lastBuild, countVars, lock, mwVars, flagVars>>

\* ERROR_HOOK.write() returns the guard.
NestAcquireWrite(t) ==
    /\ AtPc(t, {"w_acquire"})
    /\ can_write(lock)
    /\ lock' = [lock EXCEPT !.writer = t]
    /\ thr' = [thr EXCEPT ![t][Depth(t)].pc = "w_held"]
    /\ UNCHANGED <<ENRICHMENT_CONTEXT, ERROR_HOOK, lastBuild, countVars, mwVars, flagVars>>

\* `*guard = Some(Box::new(hook))`, the guard is dropped, on_error returns.
NestStoreRelease(t) ==
    /\ AtPc(t, {"w_held"})
    /\ ERROR_HOOK' = on_error(ERROR_HOOK, Top(t).hook)
    /\ lock' = [lock EXCEPT !.writer = 0]
    /\ Return(t)
    /\ UNCHANGED <<ENRICHMENT_CONTEXT, countVars, mwVars, flagVars>>

\* Thread t calls build(): EnrichmentContext::invoke runs the enricher of the
\* installed context, which returns the builder or panics; then invoke_hook.
NestBuildBegin(t) ==
    /\ Depth(t) = 0
    /\ IF is_some(ENRICHMENT_CONTEXT[t]) /\ unwrap(ENRICHMENT_CONTEXT[t]).enricher = "panic"
       THEN /\ lastBuild' = Some([op |-> "build", outcome |-> "panicked", from |-> "enricher"])
            /\ UNCHANGED thr
       ELSE /\ thr' = [thr EXCEPT ![t] = <<Frame("build", "b_read", 0)>>]
            /\ UNCHANGED lastBuild
    /\ UNCHANGED <<ENRICHMENT_CONTEXT, ERROR_HOOK, countVars, lock, mwVars, flagVars>>

\* ERROR_HOOK.read() returns the guard.
NestAcquireRead(t) ==
    /\ AtPc(t, {"b_read"})
    /\ nest_can_read(t)
    /\ lock' = [lock EXCEPT !.readers = @ \cup {<<t, Depth(t)>>}]
    /\ thr' = [thr EXCEPT ![t][Depth(t)].pc = "b_hook"]
    /\ UNCHANGED <<ENRICHMENT_CONTEXT, ERROR_HOOK, lastBuild, countVars, mwVars, flagVars>>

\* read() or write() by a thread that holds a read guard, where the lock
\* detects it: the call panics.
NestLockPanics(t) ==
    /\ AtPc(t, {"w_acquire", "b_read"})
    /\ HoldsRead(t)
    /\ lock.platform = "panics"
    /\ Panic(t, "lock")
    /\ UNCHANGED <<ENRICHMENT_CONTEXT, ERROR_HOOK, countVars, mwVars, flagVars>>

\* `if let Some(hook) = guard.as_ref() { hook(error) }` with the read guard
\* held: the hook returns, panics, or calls on_error or build() itself. The
\* closures that call back do so only when they are not already inside a
\* call they made.
NestCallHook(t) ==
    /\ AtPc(t, {"b_hook"})
    /\ LET kind == unwrap_or(ERROR_HOOK, "none")
       IN CASE kind = "panic" ->
                 /\ Panic(t, "hook")
            [] kind = "reinstall" /\ Depth(t) = 1 ->
                 /\ thr' = [thr EXCEPT ![t] = <<[Top(t) EXCEPT !.pc = "in_hook"],
                                                Frame("on_error", "w_acquire", "count")>>]
                 /\ UNCHANGED <<lock, lastBuild>>
            [] kind = "rebuild" /\ Depth(t) = 1 ->
                 /\ thr' = [thr EXCEPT ![t] = <<[Top(t) EXCEPT !.pc = "in_hook"],
                                                Frame("build", "b_read", 0)>>]
                 /\ UNCHANGED <<lock, lastBuild>>
            [] OTHER ->
                 /\ thr' = [thr EXCEPT ![t][Depth(t)].pc = "b_release"]
                 /\ UNCHANGED <<lock, lastBuild>>
    /\ UNCHANGED <<ENRICHMENT_CONTEXT, ERROR_HOOK, countVars, mwVars, flagVars>>

\* The read guard is dropped; build() returns the error.
NestReleaseRead(t) ==
    /\ AtPc(t, {"b_release"})
    /\ lock' = [lock EXCEPT !.readers = @ \ {<<t, Depth(t)>>}]
    /\ Return(t)
    /\ UNCHANGED <<ENRICHMENT_CONTEXT, ERROR_HOOK, countVars, mwVars, flagVars>>

NextNest ==
    \/ \E e \in NestEnrichers : NestContextSet(e)
    \/ NestContextClear
    \/ \E t \in Workers, k \in HookKinds : NestOnErrorBegin(t, k)
    \/ \E t \in Workers : NestAcquireWrite(t)
    \/ \E t \in Workers : NestStoreRelease(t)
    \/ \E t \in Workers : NestBuildBegin(t)
    \/ \E t \in Workers : NestAcquireRead(t)
    \/ \E t \in Workers : NestLockPanics(t)
    \/ \E t \in Workers : NestCallHook(t)
    \/ \E t \in Workers : NestReleaseRead(t)

SpecNest == InitNest /\ [][NextNest]_vars

\* C11 - no call blocks forever: in every interleaving of build() and
\* on_error() calls, those made from inside a running hook included, no
\* thread is inside read() or write() waiting for a thread that itself waits
\* for it (or for itself), so that every call can still return.
C11_NoCallBlocksForever == DeadSets = {}

\* C12 - the reporting path does not throw: a panic raised inside the hook or
\* inside the enricher is caught and discarded, so that every build() call
\* returns the error to its caller and none is left by a panic.
C12_ReportingPathDoesNotThrow ==
    (is_some(lastBuild) /\ unwrap(lastBuild).op = "build")
        => unwrap(lastBuild).outcome = "returned"

----------------------------------------------------------------------------
(* The mapping operations: extensions.rs, helpers.rs and the helpers of     *)
(* lib.rs                                                                    *)

UNAUTHORIZED == 401
FORBIDDEN == 403
METHOD_NOT_ALLOWED == 405
CONFLICT == 409
UNPROCESSABLE_ENTITY == 422
TOO_MANY_REQUESTS == 429
BAD_GATEWAY == 502
SERVICE_UNAVAILABLE == 503
GATEWAY_TIMEOUT == 504

\* The twelve named operations: context_<op> of the extension traits, <op>
\* of helpers.rs ("internal" stands for internal_error there).
NamedOps ==
    {"bad_request", "unauthorized", "forbidden", "not_found", "method_not_allowed",
     "conflict", "unprocessable_entity", "too_many_requests", "internal",
     "bad_gateway", "service_unavailable", "gateway_timeout"}

\* anyhow!(m): a failure with message m; to_string gives the message back.
anyhow(m) == [msg |-> m]
to_string(error) == error.msg

\* Result<T, E>
Ok(v) == [ok |-> TRUE, val |-> v]
Err(e) == [ok |-> FALSE, val |-> e]

\* ApiError::builder().status(status).title(title).detail(detail)
with_status(status, title, detail) ==
    builder_detail(builder_title(builder_status(ApiErrorBuilder_default, status), title), detail)

\* context_status with a slip: the failure is not handed to the builder.
IntoApiError_context_status_no_cause(self, status, title, detail, data, guard) ==
    build(with_status(status, title, detail), data, guard)

\* context_status() with a slip: the message of the failure is given as detail.
IntoApiError_context_status_exposing(self, status, title, detail, data, guard) ==
    build(builder_error(with_status(status, title, to_string(self)), self), data, guard)

\* IntoApiError::context_status
IntoApiError_context_status(self, status, title, detail, data, guard) ==
    build(builder_error(with_status(status, title, detail), self), data, guard)

\* The StatusCode each named operation of IntoApiError passes on.
IntoApiError_status(op) ==
    CASE op = "bad_request" -> BAD_REQUEST
      [] op = "unauthorized" -> UNAUTHORIZED
      [] op = "forbidden" -> FORBIDDEN
      [] op = "not_found" -> NOT_FOUND
      [] op = "method_not_allowed" -> METHOD_NOT_ALLOWED
      [] op = "conflict" -> CONFLICT
      [] op = "unprocessable_entity" -> UNPROCESSABLE_ENTITY
      [] op = "too_many_requests" -> TOO_MANY_REQUESTS
      [] op = "internal" -> INTERNAL_SERVER_ERROR
      [] op = "bad_gateway" -> BAD_GATEWAY
      [] op = "service_unavailable" -> SERVICE_UNAVAILABLE
      [] op = "gateway_timeout" -> GATEWAY_TIMEOUT

\* IntoApiError::context_<op>
IntoApiError_context(op, self, title, detail, data, guard) ==
    IntoApiError_context_status(self, IntoApiError_status(op), title, detail, data, guard)

\* ResultExt::context_status: self.map_err(|err| err.context_status(..)).
\* `made` is the build() call the operation made, if it made one.
ResultExt_context_status(self, status, title, detail, data, guard) ==
    IF self.ok
    THEN [made |-> None, ret |-> self]
    ELSE LET b == IntoApiError_context_status(self.val, status, title, detail, data, guard)
         IN [made |-> Some(b), ret |-> Err(b.error)]

\* ResultExt::context_<op>: self.map_err(|err| err.context_<op>(..))
ResultExt_context(op, self, title, detail, data, guard) ==
    IF self.ok
    THEN [made |-> None, ret |-> self]
    ELSE LET b == IntoApiError_context(op, self.val, title, detail, data, guard)
         IN [made |-> Some(b), ret |-> Err(b.error)]

\* OptionExt::context_status with a slip: ok_or(..) in place of ok_or_else(..),
\* the error is built before the option is looked at.
OptionExt_context_status_eager(self, status, title, detail, data, guard) ==
    LET b == build(with_status(status, title, detail), data, guard)
    IN [made |-> Some(b), ret |-> IF is_some(self) THEN Ok(unwrap(self)) ELSE Err(b.error)]

\* OptionExt::context_status: self.ok_or_else(|| builder()...build())
OptionExt_context_status(self, status, title, detail, data, guard) ==
    IF is_some(self)
    THEN [made |-> None, ret |-> Ok(unwrap(self))]
    ELSE LET b == build(with_status(status, title, detail), data, guard)
         IN [made |-> Some(b), ret |-> Err(b.error)]

\* The table of OptionExt with a slip: conflict is given 400.
OptionExt_status_conflict_400(op) ==
    CASE op = "conflict" -> BAD_REQUEST
      [] op = "bad_request" -> BAD_REQUEST
      [] op = "unauthorized" -> UNAUTHORIZED
      [] op = "forbidden" -> FORBIDDEN
      [] op = "not_found" -> NOT_FOUND
      [] op = "method_not_allowed" -> METHOD_NOT_ALLOWED
      [] op = "unprocessable_entity" -> UNPROCESSABLE_ENTITY
      [] op = "too_many_requests" -> TOO_MANY_REQUESTS
      [] op = "internal" -> INTERNAL_SERVER_ERROR
      [] op = "bad_gateway" -> BAD_GATEWAY
      [] op = "service_unavailable" -> SERVICE_UNAVAILABLE
      [] op = "gateway_timeout" -> GATEWAY_TIMEOUT

\* The StatusCode each named operation of OptionExt passes on.
OptionExt_status(op) ==
    CASE op = "bad_request" -> BAD_REQUEST
      [] op = "unauthorized" -> UNAUTHORIZED
      [] op = "forbidden" -> FORBIDDEN
      [] op = "not_found" -> NOT_FOUND
      [] op = "method_not_allowed" -> METHOD_NOT_ALLOWED
      [] op = "conflict" -> CONFLICT
      [] op = "unprocessable_entity" -> UNPROCESSABLE_ENTITY
      [] op = "too_many_requests" -> TOO_MANY_REQUESTS
      [] op = "internal" -> INTERNAL_SERVER_ERROR
      [] op = "bad_gateway" -> BAD_GATEWAY
      [] op = "service_unavailable" -> SERVICE_UNAVAILABLE
      [] op = "gateway_timeout" -> GATEWAY_TIMEOUT

\* OptionExt::context_<op>
OptionExt_context(op, self, title, detail, data, guard) ==
    OptionExt_context_status(self, OptionExt_status(op), title, detail, data, guard)

\* The StatusCode each function of helpers.rs sets.
helpers_status(op) ==
    CASE op = "bad_request" -> BAD_REQUEST
      [] op = "unauthorized" -> UNAUTHORIZED
      [] op = "forbidden" -> FORBIDDEN
      [] op = "not_found" -> NOT_FOUND
      [] op = "method_not_allowed" -> METHOD_NOT_ALLOWED
      [] op = "conflict" -> CONFLICT
      [] op = "unprocessable_entity" -> UNPROCESSABLE_ENTITY
      [] op = "too_many_requests" -> TOO_MANY_REQUESTS
      [] op = "internal" -> INTERNAL_SERVER_ERROR
      [] op = "bad_gateway" -> BAD_GATEWAY
      [] op = "service_unavailable" -> SERVICE_UNAVAILABLE
      [] op = "gateway_timeout" -> GATEWAY_TIMEOUT

\* helpers.rs: ApiError::builder().status(..).title(title).detail(detail).build()
helper(op, title, detail, data, guard) ==
    build(with_status(helpers_status(op), title, detail), data, guard)

\* impl Default for ApiError: the struct is written out field by field.
ApiError_default ==
    [status |-> INTERNAL_SERVER_ERROR,
     title |-> "Internal Error",
     detail |-> "Something went wrong",
     meta |-> None,
     error |-> None]

\* lib.rs: its ApiError has three fields, api_error fills them.
lib_api_error(status, title, detail) == [status |-> status, title |-> title, detail |-> detail]

\* The named operations of lib.rs.
LibOps == {"bad_request", "unauthenticated", "unauthorized", "not_found", "internal"}

\* The StatusCode each of bad_request .. internal_error of lib.rs passes to
\* api_error.
lib_helpers_status(op) ==
    CASE op = "bad_request" -> BAD_REQUEST
      [] op = "unauthenticated" -> UNAUTHORIZED
      [] op = "unauthorized" -> FORBIDDEN
      [] op = "not_found" -> NOT_FOUND
      [] op = "internal" -> INTERNAL_SERVER_ERROR

lib_helper(op, title, detail) == lib_api_error(lib_helpers_status(op), title, detail)

\* lib.rs, OptionExt::ok_or_status and ok_or_<op>
lib_ok_or_status(self, status, title, detail) ==
    IF is_some(self) THEN Ok(unwrap(self)) ELSE Err(lib_api_error(status, title, detail))

lib_OptionExt_status(op) ==
    CASE op = "bad_request" -> BAD_REQUEST
      [] op = "unauthenticated" -> UNAUTHORIZED
      [] op = "unauthorized" -> FORBIDDEN
      [] op = "not_found" -> NOT_FOUND
      [] op = "internal" -> INTERNAL_SERVER_ERROR

lib_ok_or(op, self, title, detail) ==
    lib_ok_or_status(self, lib_OptionExt_status(op), title, detail)

\* lib.rs, IntoApiError::context_status and context_<op>: the failure is
\* dropped, api_error is given the three values.
lib_context_status(self, status, title, detail) == lib_api_error(status, title, detail)

lib_IntoApiError_status(op) ==
    CASE op = "bad_request" -> BAD_REQUEST
      [] op = "unauthenticated" -> UNAUTHORIZED
      [] op = "unauthorized" -> FORBIDDEN
      [] op = "not_found" -> NOT_FOUND
      [] op = "internal" -> INTERNAL_SERVER_ERROR

lib_context(op, self, title, detail) ==
    lib_context_status(self, lib_IntoApiError_status(op), title, detail)

\* lib.rs, ResultExt::context_<op>: self.map_err(|err| err.context_<op>(..))
lib_ResultExt_context(op, self, title, detail) ==
    IF self.ok THEN self ELSE Err(lib_context(op, self.val, title, detail))

----------------------------------------------------------------------------
(* SpecMap: one thread installs hooks and contexts and makes errors through *)
(* every construction path but From                                          *)

\* The enricher closures the repository installs: both leave status, title,
\* detail and the cause as they find them.
MapEnrichers == {"meta_from_request", "identity"}

\* The failures, the present values and the texts the callers pass.
Failures == {anyhow("boom"), anyhow("Database connection failed")}
Values == {42}
CallerTexts ==
    {<<"Invalid User ID", "User ID must be a u32">>,
     <<"User Not Found", "No user with that ID">>}

\* The builders given to build() directly.
DirectBuilders == HandlerBuilders \cup {ApiErrorBuilder_default}

\* What an operation made: the call, what it was given, the slot and the hook
\* it ran under, the build() it made if any, what it returned and the
\* ApiError that came into existence if any.
Made(surface, op, self, x, made, ret, created) ==
    [surface |-> surface, op |-> op, self |-> self,
     title |-> x[1], detail |-> x[2],
     slot |-> ENRICHMENT_CONTEXT[ApiThread], guard |-> ERROR_HOOK,
     made |-> made, ret |-> ret, created |-> created]

\* A Result or Option operation: an ApiError exists when Err came back.
MadeResult(surface, op, self, x, r) ==
    Made(surface, op, self, x, r.made, r.ret,
         IF r.ret.ok THEN None ELSE Some(r.ret.val))

InitMap ==
    /\ ENRICHMENT_CONTEXT = [w \in Workers |-> None]
    /\ ERROR_HOOK = None
    /\ lastBuild = None
    /\ hook_count = <<>>
    /\ built = <<>>
    /\ installed = <<>>
    /\ task = <<>>
    /\ polling = <<>>
    /\ lock = <<>>
    /\ thr = <<>>
    /\ EXPOSE_ERRORS = <<>>
    /\ env = <<>>
    /\ toggled = <<>>

\* lastBuild holds the operation made last under the present hook and
\* context: installing a hook or changing the context starts afresh.
MapOnError(h) ==
    /\ ERROR_HOOK' = on_error(ERROR_HOOK, h)
    /\ lastBuild' = None
    /\ UNCHANGED <<ENRICHMENT_CONTEXT, countVars, mwVars, hookVars, flagVars>>

MapContextSet(e) ==
    /\ EnrichmentContext_set(EnrichmentContext_new(from_request(Request(ApiThread)), e),
                             ApiThread)
    /\ lastBuild' = None
    /\ UNCHANGED <<ERROR_HOOK, countVars, mwVars, hookVars, flagVars>>

MapContextClear ==
    /\ EnrichmentContext_clear(ApiThread)
    /\ lastBuild' = None
    /\ UNCHANGED <<ERROR_HOOK, countVars, mwVars, hookVars, flagVars>>

\* builder.build()
MapBuild(b) ==
    /\ LET out == build(b, ENRICHMENT_CONTEXT[ApiThread], ERROR_HOOK)
       IN lastBuild' = Some(Made("builder", "build", b, <<"", "">>, Some(out), out.error,
                                 Some(out.error)))
    /\ UNCHANGED <<ENRICHMENT_CONTEXT, ERROR_HOOK, countVars, mwVars, hookVars, flagVars>>

\* e.context_<op>(title, detail)
MapIntoApiError(op, e, x) ==
    /\ LET out == IntoApiError_context(op, e, x[1], x[2], ENRICHMENT_CONTEXT[ApiThread],
                                       ERROR_HOOK)
       IN lastBuild' = Some(Made("IntoApiError", op, e, x, Some(out), out.error,
                                 Some(out.error)))
    /\ UNCHANGED <<ENRICHMENT_CONTEXT, ERROR_HOOK, countVars, mwVars, hookVars, flagVars>>

\* result.context_<op>(title, detail)
MapResultExt(op, res, x) ==
    /\ lastBuild' = Some(MadeResult("ResultExt", op, res, x,
                            ResultExt_context(op, res, x[1], x[2],
                                              ENRICHMENT_CONTEXT[ApiThread], ERROR_HOOK)))
    /\ UNCHANGED <<ENRICHMENT_CONTEXT, ERROR_HOOK, countVars, mwVars, hookVars, flagVars>>

\* option.context_<op>(title, detail)
MapOptionExt(op, opt, x) ==
    /\ lastBuild' = Some(MadeResult("OptionExt", op, opt, x,
                            OptionExt_context(op, opt, x[1], x[2],
                                              ENRICHMENT_CONTEXT[ApiThread], ERROR_HOOK)))
    /\ UNCHANGED <<ENRICHMENT_CONTEXT, ERROR_HOOK, countVars, mwVars, hookVars, flagVars>>

\* bad_request(title, detail) .. gateway_timeout(title, detail)
MapHelper(op, x) ==
    /\ LET out == helper(op, x[1], x[2], ENRICHMENT_CONTEXT[ApiThread], ERROR_HOOK)
       IN lastBuild' = Some(Made("helpers", op, None, x, Some(out), out.error,
                                 Some(out.error)))
    /\ UNCHANGED <<ENRICHMENT_CONTEXT, ERROR_HOOK, countVars, mwVars, hookVars, flagVars>>

\* ApiError::default(): no build() is made.
MapDefault ==
    /\ lastBuild' = Some(Made("default", "default", None, <<"", "">>, None, ApiError_default,
                              Some(ApiError_default)))
    /\ UNCHANGED <<ENRICHMENT_CONTEXT, ERROR_HOOK, countVars, mwVars, hookVars, flagVars>>

\* lib.rs: bad_request .. internal_error
MapLibHelper(op, x) ==
    /\ LET e == lib_helper(op, x[1], x[2])
       IN lastBuild' = Some(Made("lib.helpers", op, None, x, None, e, Some(e)))
    /\ UNCHANGED <<ENRICHMENT_CONTEXT, ERROR_HOOK, countVars, mwVars, hookVars, flagVars>>

\* lib.rs: option.ok_or_<op>(title, detail)
MapLibOptionExt(op, opt, x) ==
    /\ lastBuild' = Some(MadeResult("lib.OptionExt", op, opt, x,
                            [made |-> None, ret |-> lib_ok_or(op, opt, x[1], x[2])]))
    /\ UNCHANGED <<ENRICHMENT_CONTEXT, ERROR_HOOK, countVars, mwVars, hookVars, flagVars>>

\* lib.rs: e.context_<op>(title, detail)
MapLibIntoApiError(op, e, x) ==
    /\ LET a == lib_context(op, e, x[1], x[2])
       IN lastBuild' = Some(Made("lib.IntoApiError", op, e, x, None, a, Some(a)))
    /\ UNCHANGED <<ENRICHMENT_CONTEXT, ERROR_HOOK, countVars, mwVars, hookVars, flagVars>>

\* lib.rs: result.context_<op>(title, detail)
MapLibResultExt(op, res, x) ==
    /\ lastBuild' = Some(MadeResult("lib.ResultExt", op, res, x,
                            [made |-> None, ret |-> lib_ResultExt_context(op, res, x[1], x[2])]))
    /\ UNCHANGED <<ENRICHMENT_CONTEXT, ERROR_HOOK, countVars, mwVars, hookVars, flagVars>>

Results == {Ok(v) : v \in Values} \cup {Err(e) : e \in Failures}
Options == {None} \cup {Some(v) : v \in Values}

NextMap ==
    \/ \E h \in Hooks : MapOnError(h)
    \/ \E e \in MapEnrichers : MapContextSet(e)
    \/ MapContextClear
    \/ \E b \in DirectBuilders : MapBuild(b)
    \/ \E op \in NamedOps, e \in Failures, x \in CallerTexts : MapIntoApiError(op, e, x)
    \/ \E op \in NamedOps, res \in Results, x \in CallerTexts : MapResultExt(op, res, x)
    \/ \E op \in NamedOps, opt \in Options, x \in CallerTexts : MapOptionExt(op, opt, x)
    \/ \E op \in NamedOps, x \in CallerTexts : MapHelper(op, x)
    \/ MapDefault
    \/ \E op \in LibOps, x \in CallerTexts : MapLibHelper(op, x)
    \/ \E op \in LibOps, opt \in Options, x \in CallerTexts : MapLibOptionExt(op, opt, x)
    \/ \E op \in LibOps, e \in Failures, x \in CallerTexts : MapLibIntoApiError(op, e, x)
    \/ \E op \in LibOps, res \in Results, x \in CallerTexts : MapLibResultExt(op, res, x)

SpecMap == InitMap /\ [][NextMap]_vars

----------------------------------------------------------------------------
(* Claims about the construction paths, checked under SpecMap *)

\* The table of the mapping policy: the status each name stands for.
TableStatus(op) ==
    CASE op = "bad_request" -> 400
      [] op \in {"unauthorized", "unauthenticated"} -> 401
      [] op = "forbidden" -> 403
      [] op = "not_found" -> 404
      [] op = "method_not_allowed" -> 405
      [] op = "conflict" -> 409
      [] op = "unprocessable_entity" -> 422
      [] op = "too_many_requests" -> 429
      [] op = "internal" -> 500
      [] op = "bad_gateway" -> 502
      [] op = "service_unavailable" -> 503
      [] op = "gateway_timeout" -> 504

\* C13 - the hook is called whenever an ApiError is created: with a hook
\* installed, every ApiError made through build(), an extension operation, a
\* helper function or ApiError::default() has caused exactly one call of that
\* hook, with the very value that was made.
C13_HookOnEveryCreation ==
    (/\ is_some(lastBuild)
     /\ unwrap(lastBuild).surface \in
            {"builder", "IntoApiError", "ResultExt", "OptionExt", "helpers", "default"}
     /\ is_some(unwrap(lastBuild).created)
     /\ is_some(unwrap(lastBuild).guard))
        => /\ is_some(unwrap(lastBuild).made)
           /\ unwrap(unwrap(lastBuild).made).hook_calls =
                 <<[hook |-> unwrap(unwrap(lastBuild).guard),
                    error |-> unwrap(unwrap(lastBuild).created)]>>

\* C16 - mapping a failed computation: each of the twelve named operations of
\* ResultExt on Err(e), and of IntoApiError on e, makes an ApiError with the
\* status of the table, the title and the detail the caller gave and the
\* cause e, and does what context_status does when it is given the status of
\* the table.
C16_MappingFailure ==
    (/\ is_some(lastBuild)
     /\ unwrap(lastBuild).surface \in {"IntoApiError", "ResultExt"}
     /\ is_some(unwrap(lastBuild).created))
        => LET lb == unwrap(lastBuild)
               e == IF lb.surface = "ResultExt" THEN lb.self.val ELSE lb.self
               a == unwrap(lb.created)
           IN /\ a.status = TableStatus(lb.op)
              /\ a.title = lb.title
              /\ a.detail = lb.detail
              /\ a.error = Some(e)
              /\ IF lb.surface = "ResultExt"
                 THEN [made |-> lb.made, ret |-> lb.ret] =
                          ResultExt_context_status(lb.self, TableStatus(lb.op), lb.title,
                                                   lb.detail, lb.slot, lb.guard)
                 ELSE /\ lb.made = Some(IntoApiError_context_status(
                                            e, TableStatus(lb.op), lb.title, lb.detail,
                                            lb.slot, lb.guard))
                      /\ lb.ret = unwrap(lb.made).error

\* C16 witness: Err(e).context_unauthorized(..) under a hook and a context
\* gave Err of a 401 error with the caller's texts and e as its cause.
C16_Witness ==
    /\ is_some(lastBuild)
    /\ unwrap(lastBuild).surface = "ResultExt"
    /\ unwrap(lastBuild).op = "unauthorized"
    /\ unwrap(lastBuild).self = Err(anyhow("boom"))
    /\ is_some(unwrap(lastBuild).slot)
    /\ is_some(unwrap(lastBuild).guard)
    /\ unwrap(lastBuild).ret.ok = FALSE
    /\ unwrap(lastBuild).ret.val.status = 401
    /\ unwrap(lastBuild).ret.val.title = "Invalid User ID"
    /\ unwrap(lastBuild).ret.val.detail = "User ID must be a u32"
    /\ unwrap(lastBuild).ret.val.error = Some(anyhow("boom"))

\* C17 - mapping an absence: each of the twelve named operations of OptionExt
\* on None, and each of the twelve helper functions, makes an ApiError with
\* the status of the table, the title and the detail the caller gave and no
\* cause; the OptionExt operation does what context_status does when it is
\* given the status of the table.
C17_MappingAbsence ==
    (/\ is_some(lastBuild)
     /\ unwrap(lastBuild).surface \in {"OptionExt", "helpers"}
     /\ is_some(unwrap(lastBuild).created))
        => LET lb == unwrap(lastBuild)
               a == unwrap(lb.created)
           IN /\ a.status = TableStatus(lb.op)
              /\ a.title = lb.title
              /\ a.detail = lb.detail
              /\ a.error = None
              /\ lb.surface = "OptionExt" =>
                    [made |-> lb.made, ret |-> lb.ret] =
                        OptionExt_context_status(lb.self, TableStatus(lb.op), lb.title,
                                                 lb.detail, lb.slot, lb.guard)

\* C17 witness: None.context_conflict(..) gave Err of a 409 error with the
\* caller's texts and no cause.
C17_Witness ==
    /\ is_some(lastBuild)
    /\ unwrap(lastBuild).surface = "OptionExt"
    /\ unwrap(lastBuild).op = "conflict"
    /\ unwrap(lastBuild).self = None
    /\ unwrap(lastBuild).ret.ok = FALSE
    /\ unwrap(lastBuild).ret.val.status = 409
    /\ unwrap(lastBuild).ret.val.title = "User Not Found"
    /\ unwrap(lastBuild).ret.val.detail = "No user with that ID"
    /\ unwrap(lastBuild).ret.val.error = None

\* C18 - name-to-status consistency: on every public surface, the extension
\* methods and helper functions of lib.rs included, an error made by the
\* operation named "unauthorized" has status 401 and one made by the
\* operation named "forbidden" has status 403.
C18_NameToStatus ==
    (is_some(lastBuild) /\ is_some(unwrap(lastBuild).created))
        => /\ unwrap(lastBuild).op = "unauthorized"
                => unwrap(unwrap(lastBuild).created).status = 401
           /\ unwrap(lastBuild).op = "forbidden"
                => unwrap(unwrap(lastBuild).created).status = 403

----------------------------------------------------------------------------
(* SpecFrom: the expose flag, the environment variable and the conversion   *)
(* From<E> for ApiError                                                      *)

\* The values AXUM_ANYHOW_EXPOSE_ERRORS is given.
EnvValues == {"1", "TRUE", "0"}

\* str::to_ascii_lowercase on the strings of the model.
to_ascii_lowercase(s) ==
    CASE s = "TRUE" -> "true"
      [] s = "True" -> "true"
      [] OTHER -> s

eq_ignore_ascii_case(a, b) == to_ascii_lowercase(a) = to_ascii_lowercase(b)

\* is_expose_errors_enabled with the AtomicBool holding `flag` and
\* std::env::var giving `var` (None when the variable is not set).
is_expose_errors_enabled(flag, var) ==
    IF flag
    THEN TRUE
    ELSE IF is_some(var)
         THEN unwrap(var) = "1" \/ eq_ignore_ascii_case(unwrap(var), "true")
         ELSE FALSE

\* from() with a slip: the failure is not handed to the builder.
From_without_cause(err, flag, var, data, guard) ==
    LET builder == ApiErrorBuilder_default
    IN build(IF is_expose_errors_enabled(flag, var)
             THEN builder_detail(builder, to_string(err))
             ELSE builder,
             data, guard)

\* from() with a slip: the message is copied into detail whatever the flag.
From_always_exposing(err, flag, var, data, guard) ==
    build(builder_error(builder_detail(ApiErrorBuilder_default, to_string(err)), err),
          data, guard)

\* impl From<E> for ApiError: from(err)
From(err, flag, var, data, guard) ==
    LET error == err
        should_expose == is_expose_errors_enabled(flag, var)
        builder == IF should_expose
                   THEN builder_detail(ApiErrorBuilder_default, to_string(error))
                   ELSE ApiErrorBuilder_default
    IN build(builder_error(builder, error), data, guard)

InitFrom ==
    /\ ENRICHMENT_CONTEXT = [w \in Workers |-> None]
    /\ ERROR_HOOK = None
    /\ EXPOSE_ERRORS = FALSE
    /\ env \in {None} \cup {Some(v) : v \in EnvValues}
    /\ toggled = None
    /\ lastBuild = None
    /\ hook_count = <<>>
    /\ built = <<>>
    /\ installed = <<>>
    /\ task = <<>>
    /\ polling = <<>>
    /\ lock = <<>>
    /\ thr = <<>>

\* set_expose_errors(expose)
set_expose_errors(expose) ==
    /\ EXPOSE_ERRORS' = expose
    /\ toggled' = Some(expose)
    /\ UNCHANGED <<ENRICHMENT_CONTEXT, ERROR_HOOK, lastBuild, env, countVars, mwVars, hookVars>>

\* std::env::set_var("AXUM_ANYHOW_EXPOSE_ERRORS", v)
SetEnvVar(v) ==
    /\ env' = Some(v)
    /\ UNCHANGED <<ENRICHMENT_CONTEXT, ERROR_HOOK, lastBuild, EXPOSE_ERRORS, toggled,
                   countVars, mwVars, hookVars>>

\* std::env::remove_var("AXUM_ANYHOW_EXPOSE_ERRORS")
RemoveEnvVar ==
    /\ env' = None
    /\ UNCHANGED <<ENRICHMENT_CONTEXT, ERROR_HOOK, lastBuild, EXPOSE_ERRORS, toggled,
                   countVars, mwVars, hookVars>>

FromOnError(h) ==
    /\ ERROR_HOOK' = on_error(ERROR_HOOK, h)
    /\ UNCHANGED <<ENRICHMENT_CONTEXT, lastBuild, countVars, mwVars, hookVars, flagVars>>

FromContextSet(e) ==
    /\ EnrichmentContext_set(EnrichmentContext_new(from_request(Request(ApiThread)), e),
                             ApiThread)
    /\ UNCHANGED <<ERROR_HOOK, lastBuild, countVars, mwVars, hookVars, flagVars>>

FromContextClear ==
    /\ EnrichmentContext_clear(ApiThread)
    /\ UNCHANGED <<ERROR_HOOK, lastBuild, countVars, mwVars, hookVars, flagVars>>

\* let api_err: ApiError = err.into(): the flag and the variable it read,
\* whether it took exposure as enabled, and what build() gave.
FromConvert(e) ==
    /\ lastBuild' = Some([self |-> e,
                          flag |-> EXPOSE_ERRORS,
                          var |-> env,
                          exposed |-> is_expose_errors_enabled(EXPOSE_ERRORS, env),
                          slot |-> ENRICHMENT_CONTEXT[ApiThread],
                          guard |-> ERROR_HOOK,
                          out |-> From(e, EXPOSE_ERRORS, env, ENRICHMENT_CONTEXT[ApiThread],
                                       ERROR_HOOK)])
    /\ UNCHANGED <<ENRICHMENT_CONTEXT, ERROR_HOOK, countVars, mwVars, hookVars, flagVars>>

NextFrom ==
    \/ \E b \in BOOLEAN : set_expose_errors(b)
    \/ \E v \in EnvValues : SetEnvVar(v)
    \/ RemoveEnvVar
    \/ \E h \in Hooks : FromOnError(h)
    \/ \E e \in MapEnrichers : FromContextSet(e)
    \/ FromContextClear
    \/ \E e \in Failures : FromConvert(e)

SpecFrom == InitFrom /\ [][NextFrom]_vars

\* C19 - implicit conversion: an ApiError made from a failure through From
\* has status 500 and title "Internal Error" and holds that failure as its
\* cause, for both values of the expose flag and every value of the
\* environment variable.
C19_ImplicitConversion ==
    is_some(lastBuild) =>
        /\ unwrap(lastBuild).out.error.status = 500
        /\ unwrap(lastBuild).out.error.title = "Internal Error"
        /\ unwrap(lastBuild).out.error.error = Some(unwrap(lastBuild).self)

\* C19 witness: a failure converted with the flag set, its message in detail,
\* is a 500 "Internal Error" with the failure as cause.
C19_Witness ==
    /\ is_some(lastBuild)
    /\ unwrap(lastBuild).flag = TRUE
    /\ unwrap(lastBuild).self = anyhow("boom")
    /\ unwrap(lastBuild).out.error.detail = "boom"
    /\ unwrap(lastBuild).out.error.status = 500
    /\ unwrap(lastBuild).out.error.title = "Internal Error"
    /\ unwrap(lastBuild).out.error.error = Some(anyhow("boom"))

\* C20 - expose flag and detail: the detail of an ApiError made through From
\* from a failure with message m is "Something went wrong" when exposure is
\* disabled and m when it is enabled; and while exposure is disabled any two
\* failures, whatever their messages, convert to errors of the same status,
\* title and detail.
C20_ExposeFlagAndDetail ==
    /\ is_some(lastBuild) =>
          unwrap(lastBuild).out.error.detail =
              IF unwrap(lastBuild).exposed
              THEN unwrap(lastBuild).self.msg
              ELSE "Something went wrong"
    /\ ~is_expose_errors_enabled(EXPOSE_ERRORS, env) =>
          \A e1 \in Failures, e2 \in Failures :
              LET a1 == From(e1, EXPOSE_ERRORS, env, ENRICHMENT_CONTEXT[ApiThread],
                             ERROR_HOOK).error
                  a2 == From(e2, EXPOSE_ERRORS, env, ENRICHMENT_CONTEXT[ApiThread],
                             ERROR_HOOK).error
              IN /\ a1.status = a2.status
                 /\ a1.title = a2.title
                 /\ a1.detail = a2.detail

\* C20 witness: with the flag false and the variable "0" a failure with
\* message "boom" was converted and its detail is the default text.
C20_Witness ==
    /\ is_some(lastBuild)
    /\ unwrap(lastBuild).flag = FALSE
    /\ unwrap(lastBuild).var = Some("0")
    /\ ~unwrap(lastBuild).exposed
    /\ unwrap(lastBuild).self = anyhow("boom")
    /\ unwrap(lastBuild).out.error.detail = "Something went wrong"
    /\ unwrap(lastBuild).out.error.error = Some(anyhow("boom"))

\* C21 - programmatic setting takes precedence: once set_expose_errors(v) has
\* been called, is_expose_errors_enabled() returns v, the v of the latest
\* call, whatever the environment variable holds, for v = true and for
\* v = false; the variable decides only while set_expose_errors has never
\* been called.
C21_ProgrammaticPrecedence ==
    is_some(toggled) =>
        is_expose_errors_enabled(EXPOSE_ERRORS, env) = unwrap(toggled)

----------------------------------------------------------------------------
(* SpecValue: a builder chain, build(), into_response() and into_error()    *)

\* serde_json::Value: Value::Null, and a JSON object as a record of its keys.
Value_Null == [Value |-> "Null"]

\* json!({"trace_id": "xyz-789"})
json_trace_id == [trace_id |-> "xyz-789"]

\* The arguments the setters of the model are called with.
ValStatuses == {BAD_REQUEST, NOT_FOUND}
ValTitles == {"Validation Error", "Database Error"}
ValDetails == {"Email is required", "Failed to connect"}
ValMetas == {json_trace_id, Value_Null}
ValFields == {"status", "title", "detail", "meta", "error"}

\* The setter of each field, on the arguments it takes in the model.
ValArgs(field) ==
    CASE field = "status" -> ValStatuses
      [] field = "title" -> ValTitles
      [] field = "detail" -> ValDetails
      [] field = "meta" -> ValMetas
      [] OTHER -> Failures

\* title() with a slip: setting the title resets the detail.
setter_title_resets_detail(self, field, arg) ==
    CASE field = "status" -> builder_status(self, arg)
      [] field = "title" -> [builder_title(self, arg) EXCEPT !.detail = None]
      [] field = "detail" -> builder_detail(self, arg)
      [] field = "meta" -> builder_meta(self, arg)
      [] OTHER -> builder_error(self, arg)

\* self.status(arg), self.title(arg), self.detail(arg), self.meta(arg),
\* self.error(arg)
setter(self, field, arg) ==
    CASE field = "status" -> builder_status(self, arg)
      [] field = "title" -> builder_title(self, arg)
      [] field = "detail" -> builder_detail(self, arg)
      [] field = "meta" -> builder_meta(self, arg)
      [] OTHER -> builder_error(self, arg)

\* StatusCode::as_u16
as_u16(status) == status

\* ApiErrorResponse { status, title, detail, meta }: the cause is not a field.
ApiErrorResponse(self) ==
    [status |-> as_u16(self.status), title |-> self.title, detail |-> self.detail,
     meta |-> self.meta]

\* Serialize with a slip: meta is not skipped when it is None.
serialize_meta_null(resp) ==
    [k \in {"status", "title", "detail", "meta"} |->
        IF k = "meta" THEN unwrap_or(resp.meta, Value_Null) ELSE resp[k]]

\* #[derive(Serialize)] of ApiErrorResponse: the JSON object, key by key;
\* meta is skipped when Option::is_none, and Value::Null is written as null.
serialize(resp) ==
    [k \in {"status", "title", "detail"} \cup (IF is_none(resp.meta) THEN {} ELSE {"meta"}) |->
        IF k = "meta" THEN unwrap(resp.meta) ELSE resp[k]]

\* into_response(self): (self.status, Json(body)).into_response()
into_response(self) ==
    [status |-> self.status, body |-> serialize(ApiErrorResponse(self))]

\* format!("{}: {}", title, detail)
format_title_detail(title, detail) == title \o ": " \o detail

\* Error::context(c): a failure with message c whose source is `error`.
context(error, c) == [msg |-> c, source |-> error]

\* The messages of a failure's chain, outermost first.
RECURSIVE Error_chain(_)
Error_chain(error) ==
    IF "source" \in DOMAIN error
    THEN <<error.msg>> \o Error_chain(error.source)
    ELSE <<error.msg>>

\* into_error with a slip: the cause is not chained.
into_error_without_cause(self) == anyhow(format_title_detail(self.title, self.detail))

\* into_error(self)
into_error(self) ==
    IF is_some(self.error)
    THEN context(unwrap(self.error), format_title_detail(self.title, self.detail))
    ELSE anyhow(format_title_detail(self.title, self.detail))

\* The state outside a builder: the context slot, the hook slot, the flag and
\* the environment variable.
ValOutside == <<ENRICHMENT_CONTEXT, ERROR_HOOK, EXPOSE_ERRORS, env>>

\* The latest operation was `ops`.
ValAfter(ops) == is_some(lastBuild) /\ unwrap(lastBuild).op \in ops

InitValue ==
    /\ ENRICHMENT_CONTEXT = [w \in Workers |-> None]
    /\ ERROR_HOOK = None
    /\ EXPOSE_ERRORS = FALSE
    /\ env = None
    /\ toggled = None
    /\ lastBuild = None
    /\ hook_count = <<>>
    /\ built = <<>>
    /\ installed = <<>>
    /\ task = <<>>
    /\ polling = <<>>
    /\ lock = <<>>
    /\ thr = <<>>

ValOnError(h) ==
    /\ ERROR_HOOK' = on_error(ERROR_HOOK, h)
    /\ UNCHANGED <<ENRICHMENT_CONTEXT, lastBuild, countVars, mwVars, hookVars, flagVars>>

ValContextSet(e) ==
    /\ EnrichmentContext_set(EnrichmentContext_new(from_request(Request(ApiThread)), e),
                             ApiThread)
    /\ UNCHANGED <<ERROR_HOOK, lastBuild, countVars, mwVars, hookVars, flagVars>>

ValContextClear ==
    /\ EnrichmentContext_clear(ApiThread)
    /\ UNCHANGED <<ERROR_HOOK, lastBuild, countVars, mwVars, hookVars, flagVars>>

\* ApiError::builder()
ValBuilder ==
    /\ lastBuild' = Some([op |-> "builder", out |-> ApiErrorBuilder_default])
    /\ UNCHANGED <<ENRICHMENT_CONTEXT, ERROR_HOOK, countVars, mwVars, hookVars, flagVars>>

\* builder.<field>(arg) on the builder the chain has so far.
ValSetter(field, arg) ==
    /\ ValAfter({"builder", "setter"})
    /\ lastBuild' = Some([op |-> "setter", field |-> field, arg |-> arg,
                          self |-> unwrap(lastBuild).out,
                          out |-> setter(unwrap(lastBuild).out, field, arg)])
    /\ UNCHANGED <<ENRICHMENT_CONTEXT, ERROR_HOOK, countVars, mwVars, hookVars, flagVars>>

\* builder.build() at the end of the chain.
ValBuild ==
    /\ ValAfter({"builder", "setter"})
    /\ lastBuild' = Some([op |-> "build", self |-> unwrap(lastBuild).out,
                          slot |-> ENRICHMENT_CONTEXT[ApiThread], guard |-> ERROR_HOOK,
                          out |-> build(unwrap(lastBuild).out, ENRICHMENT_CONTEXT[ApiThread],
                                        ERROR_HOOK).error])
    /\ UNCHANGED <<ENRICHMENT_CONTEXT, ERROR_HOOK, countVars, mwVars, hookVars, flagVars>>

\* let api_err: ApiError = err.into()
ValFrom(e) ==
    /\ lastBuild' = Some([op |-> "from", self |-> e,
                          out |-> From(e, EXPOSE_ERRORS, env, ENRICHMENT_CONTEXT[ApiThread],
                                       ERROR_HOOK).error])
    /\ UNCHANGED <<ENRICHMENT_CONTEXT, ERROR_HOOK, countVars, mwVars, hookVars, flagVars>>

\* api_err.into_response() on the error just made.
ValIntoResponse ==
    /\ ValAfter({"build", "from"})
    /\ lastBuild' = Some([op |-> "into_response", self |-> unwrap(lastBuild).out,
                          out |-> into_response(unwrap(lastBuild).out)])
    /\ UNCHANGED <<ENRICHMENT_CONTEXT, ERROR_HOOK, countVars, mwVars, hookVars, flagVars>>

\* api_err.into_error() on the error just made.
ValIntoError ==
    /\ ValAfter({"build", "from"})
    /\ lastBuild' = Some([op |-> "into_error", self |-> unwrap(lastBuild).out,
                          flag |-> EXPOSE_ERRORS,
                          out |-> into_error(unwrap(lastBuild).out)])
    /\ UNCHANGED <<ENRICHMENT_CONTEXT, ERROR_HOOK, countVars, mwVars, hookVars, flagVars>>

NextValue ==
    \/ \E h \in Hooks : ValOnError(h)
    \/ \E e \in MapEnrichers : ValContextSet(e)
    \/ ValContextClear
    \/ \E b \in BOOLEAN : set_expose_errors(b)
    \/ ValBuilder
    \/ \E field \in ValFields : \E arg \in ValArgs(field) : ValSetter(field, arg)
    \/ ValBuild
    \/ \E e \in Failures : ValFrom(e)
    \/ ValIntoResponse
    \/ ValIntoError

SpecValue == InitValue /\ [][NextValue]_vars

\* C22 as stated - wire rendering: the response of into_response() has the
\* error's status as its HTTP status and, in its JSON body, as the number
\* under "status", and the error's title and detail; the key "meta" is in the
\* body exactly when meta was set and never holds null; the cause is under
\* no key of the body.
C22_MetaNeverNull ==
    ValAfter({"into_response"}) =>
        LET lb == unwrap(lastBuild)
        IN /\ lb.out.status = lb.self.status
           /\ lb.out.body.status = lb.self.status
           /\ lb.out.body.title = lb.self.title
           /\ lb.out.body.detail = lb.self.detail
           /\ ("meta" \in DOMAIN lb.out.body) <=> is_some(lb.self.meta)
           /\ "meta" \in DOMAIN lb.out.body => lb.out.body.meta # Value_Null
           /\ DOMAIN lb.out.body \subseteq {"status", "title", "detail", "meta"}

\* C22 - wire rendering, amended: the response of into_response() has the
\* error's status as its HTTP status and, in its JSON body, as the number
\* under "status", and the error's title and detail; the key "meta" is in the
\* body exactly when meta was set and then holds the value that was set (null
\* only when meta was set to JSON null), so an error without meta never gives
\* a null; the cause is under no key of the body.
C22_WireRendering ==
    ValAfter({"into_response"}) =>
        LET lb == unwrap(lastBuild)
        IN /\ lb.out.status = lb.self.status
           /\ lb.out.body.status = lb.self.status
           /\ lb.out.body.title = lb.self.title
           /\ lb.out.body.detail = lb.self.detail
           /\ ("meta" \in DOMAIN lb.out.body) <=> is_some(lb.self.meta)
           /\ "meta" \in DOMAIN lb.out.body => lb.out.body.meta = unwrap(lb.self.meta)
           /\ DOMAIN lb.out.body \subseteq {"status", "title", "detail", "meta"}

\* C22 witness: a 404 error with meta {"trace_id": ..} and a cause was
\* rendered; the body holds that meta and nothing of the cause.
C22_Witness ==
    /\ ValAfter({"into_response"})
    /\ unwrap(lastBuild).self.status = NOT_FOUND
    /\ unwrap(lastBuild).self.meta = Some(json_trace_id)
    /\ is_some(unwrap(lastBuild).self.error)
    /\ unwrap(lastBuild).out.status = 404
    /\ unwrap(lastBuild).out.body =
          [status |-> 404, title |-> unwrap(lastBuild).self.title,
           detail |-> unwrap(lastBuild).self.detail, meta |-> json_trace_id]

\* C23 - conversion back to a failure: the failure into_error() gives has the
\* message "{title}: {detail}"; made of an error without cause it has no
\* source, made of an error with a cause its source is that cause, so its
\* chain is "{title}: {detail}" followed by the chain of the cause, messages
\* unchanged, for both values of the expose flag.
C23_IntoError ==
    ValAfter({"into_error"}) =>
        LET lb == unwrap(lastBuild)
            message == format_title_detail(lb.self.title, lb.self.detail)
        IN /\ to_string(lb.out) = message
           /\ is_none(lb.self.error) => Error_chain(lb.out) = <<message>>
           /\ is_some(lb.self.error) =>
                 /\ Error_chain(lb.out) = <<message>> \o Error_chain(unwrap(lb.self.error))
                 /\ lb.out.source = unwrap(lb.self.error)

\* C23 witness: with the expose flag on, an error with title "Database
\* Error", detail "Failed to connect" and the cause "boom" was converted.
C23_Witness ==
    /\ ValAfter({"into_error"})
    /\ unwrap(lastBuild).flag = TRUE
    /\ unwrap(lastBuild).self.error = Some(anyhow("boom"))
    /\ Error_chain(unwrap(lastBuild).out) = <<"Database Error: Failed to connect", "boom">>

\* A setter has just returned.
ValSetterStep ==
    /\ lastBuild' # lastBuild
    /\ is_some(lastBuild')
    /\ unwrap(lastBuild').op = "setter"

\* C25 - builder setters: a call of status(), title(), detail(), meta() or
\* error() on the builder of a chain returns that builder with its own field
\* holding the argument, whatever the field held before, and the other four
\* fields as they were; and the step leaves the context slot, the hook slot,
\* the expose flag and the environment variable as they were.
C25_Setters ==
    [][ValSetterStep =>
          LET lb == unwrap(lastBuild')
          IN /\ lb.self = unwrap(lastBuild).out
             /\ lb.out[lb.field] = Some(lb.arg)
             /\ \A f \in ValFields \ {lb.field} : lb.out[f] = lb.self[f]
             /\ UNCHANGED ValOutside]_vars

\* C25 witness: with a context and a hook installed and the flag on, title()
\* was called on a builder that already had another title and a detail.
C25_Witness ==
    /\ ValAfter({"setter"})
    /\ is_some(ENRICHMENT_CONTEXT[ApiThread])
    /\ is_some(ERROR_HOOK)
    /\ EXPOSE_ERRORS = TRUE
    /\ unwrap(lastBuild).field = "title"
    /\ unwrap(lastBuild).self.title = Some("Validation Error")
    /\ is_some(unwrap(lastBuild).self.detail)
    /\ unwrap(lastBuild).out.title = Some("Database Error")
    /\ unwrap(lastBuild).out.detail = unwrap(lastBuild).self.detail

----------------------------------------------------------------------------
(* SpecLayers: ErrorInterceptor layers nested around one handler, the       *)
(* futures of the requests polled one at a time on one thread                *)

NumLayers == 2

\* Layer 1 is the outermost, layer NumLayers wraps the handler.
Layers == 1..NumLayers
Handler == NumLayers + 1

\* The enricher each layer was made with.
LayerEnricherOf(i) == IF i = NumLayers THEN "meta_from_request" ELSE "title_if_unset"

\* The context the call() of layer i makes for request r.
LayerContext(i, r) == EnrichmentContext_new(from_request(Request(r)), LayerEnricherOf(i))

\* The builders the handler builds its errors from.
LayerBuilders == HandlerBuilders \cup {ApiErrorBuilder_default}

\* What the handler's future resolves to: a response that is not an error,
\* the response of the error it has just built, or an error of the service.
Response200 == [status |-> 200, body |-> [ok |-> TRUE]]
ServiceError == [error |-> "service error"]
HandlerResults ==
    {Ok(Response200), Err(ServiceError)}
        \cup (IF is_some(lastBuild)
              THEN {Ok(into_response(unwrap(lastBuild).out.error))}
              ELSE {})

\* The async block with a slip: an error response is replaced by a 500.
async_block_result_rewrites(result) ==
    IF result.ok /\ result.val.status >= 400
    THEN Ok([status |-> INTERNAL_SERVER_ERROR, body |-> result.val.body])
    ELSE result

\* The value of the async block of call(): `result`, what future.await gave.
async_block_result(result) == result

\* invoke with a slip: the context is taken out of the slot.
invoke_slot_take(data) == None

\* The slot when invoke returns: data.borrow() reads it and leaves it.
invoke_slot(data) == data

InitLayers ==
    /\ ENRICHMENT_CONTEXT = [w \in Workers |-> None]
    /\ ERROR_HOOK = None
    /\ task = [r \in Requests |->
                  [pc |-> "new", at |-> 0, dir |-> "down", started |-> {},
                   result |-> [i \in 1..Handler |-> None]]]
    /\ polling = [w \in Workers |-> 0]
    /\ lastBuild = None
    /\ hook_count = <<>>
    /\ built = <<>>
    /\ installed = <<>>
    /\ lock = <<>>
    /\ thr = <<>>
    /\ EXPOSE_ERRORS = <<>>
    /\ env = <<>>
    /\ toggled = <<>>

\* on_error(hook), from any thread at any time.
LayersOnError(h) ==
    /\ ERROR_HOOK' = on_error(ERROR_HOOK, h)
    /\ lastBuild' = None
    /\ UNCHANGED <<ENRICHMENT_CONTEXT, task, polling, countVars, hookVars, flagVars>>

\* call(request) of the outermost layer: every layer makes its snapshot and
\* its context and calls the service it wraps; no async block has run yet.
LayersCall(r) ==
    /\ task[r].pc = "new"
    /\ polling[ApiThread] = 0
    /\ task' = [task EXCEPT ![r].pc = "created"]
    /\ lastBuild' = None
    /\ UNCHANGED <<ENRICHMENT_CONTEXT, ERROR_HOOK, polling, countVars, hookVars, flagVars>>

\* The thread polls the future of request r: the block of the outermost
\* layer runs or resumes.
LayersPoll(r) ==
    /\ task[r].pc \in {"created", "pending"}
    /\ polling[ApiThread] = 0
    /\ task' = [task EXCEPT ![r].pc = "polling", ![r].at = 1, ![r].dir = "down"]
    /\ polling' = [polling EXCEPT ![ApiThread] = r]
    /\ lastBuild' = None
    /\ UNCHANGED <<ENRICHMENT_CONTEXT, ERROR_HOOK, countVars, hookVars, flagVars>>

\* The block of layer task[r].at: on its first poll ctx.set() runs; then, on
\* every poll, it polls the future of the service it wraps.
LayersEnter(r) ==
    /\ polling[ApiThread] = r
    /\ task[r].dir = "down"
    /\ task[r].at \in Layers
    /\ IF task[r].at \in task[r].started
       THEN UNCHANGED ENRICHMENT_CONTEXT
       ELSE EnrichmentContext_set(LayerContext(task[r].at, r), ApiThread)
    /\ task' = [task EXCEPT ![r].started = @ \cup {task[r].at}, ![r].at = @ + 1]
    /\ lastBuild' = None
    /\ UNCHANGED <<ERROR_HOOK, polling, countVars, hookVars, flagVars>>

\* The handler of request r builds an error: the nth build() in a row, `first`
\* the slot the first of them read.
LayersHandlerBuild(r, b) ==
    /\ polling[ApiThread] = r
    /\ task[r].at = Handler
    /\ is_some(lastBuild) => unwrap(lastBuild).nth < MaxBuilds
    /\ lastBuild' = Some([by |-> r,
                          nth |-> IF is_some(lastBuild) THEN unwrap(lastBuild).nth + 1 ELSE 1,
                          first |-> IF is_some(lastBuild) THEN unwrap(lastBuild).first
                                    ELSE ENRICHMENT_CONTEXT[ApiThread],
                          slot |-> ENRICHMENT_CONTEXT[ApiThread],
                          builder |-> b,
                          out |-> build(b, ENRICHMENT_CONTEXT[ApiThread], ERROR_HOOK)])
    /\ ENRICHMENT_CONTEXT' = [ENRICHMENT_CONTEXT EXCEPT ![ApiThread] = invoke_slot(@)]
    /\ UNCHANGED <<ERROR_HOOK, task, polling, countVars, hookVars, flagVars>>

\* The handler's future returns Poll::Pending: every block is suspended at
\* its await and the thread is free.
LayersHandlerPending(r) ==
    /\ polling[ApiThread] = r
    /\ task[r].at = Handler
    /\ task' = [task EXCEPT ![r].pc = "pending", ![r].at = 0]
    /\ polling' = [polling EXCEPT ![ApiThread] = 0]
    /\ lastBuild' = None
    /\ UNCHANGED <<ENRICHMENT_CONTEXT, ERROR_HOOK, countVars, hookVars, flagVars>>

\* The handler's future resolves with res.
LayersHandlerReady(r, res) ==
    /\ polling[ApiThread] = r
    /\ task[r].at = Handler
    /\ task' = [task EXCEPT ![r].result[Handler] = Some(res), ![r].at = NumLayers,
                            ![r].dir = "up"]
    /\ lastBuild' = None
    /\ UNCHANGED <<ENRICHMENT_CONTEXT, ERROR_HOOK, polling, countVars, hookVars, flagVars>>

\* future.await of layer task[r].at has given its result: clear() runs and
\* the block returns; the outermost block ends the poll.
LayersReturn(r) ==
    /\ polling[ApiThread] = r
    /\ task[r].dir = "up"
    /\ task[r].at \in Layers
    /\ EnrichmentContext_clear(ApiThread)
    /\ task' = [task EXCEPT
                  ![r].result[task[r].at] =
                      Some(async_block_result(unwrap(task[r].result[task[r].at + 1]))),
                  ![r].at = @ - 1,
                  ![r].pc = IF task[r].at = 1 THEN "done" ELSE @]
    /\ polling' = [polling EXCEPT ![ApiThread] = IF task[r].at = 1 THEN 0 ELSE @]
    /\ lastBuild' = None
    /\ UNCHANGED <<ERROR_HOOK, countVars, hookVars, flagVars>>

NextLayers ==
    \/ \E h \in Hooks : LayersOnError(h)
    \/ \E r \in Requests : LayersCall(r)
    \/ \E r \in Requests : LayersPoll(r)
    \/ \E r \in Requests : LayersEnter(r)
    \/ \E r \in Requests : \E b \in LayerBuilders : LayersHandlerBuild(r, b)
    \/ \E r \in Requests : LayersHandlerPending(r)
    \/ \E r \in Requests : \E res \in HandlerResults : LayersHandlerReady(r, res)
    \/ \E r \in Requests : LayersReturn(r)

SpecLayers == InitLayers /\ [][NextLayers]_vars

\* C24 - the middleware is transparent: whenever a layer's block has
\* returned, what it returned is the Result the service it wraps produced, an
\* error response included, so the outermost layer returns the handler's
\* Result; and no step of a request through the layers changes the hook slot.
C24_Transparent ==
    [][task' # task =>
          /\ UNCHANGED ERROR_HOOK
          /\ \A r \in Requests : \A i \in Layers :
                is_some(task'[r].result[i]) =>
                    task'[r].result[i] = task'[r].result[i + 1]]_vars

\* C24 witness: the future of a request has resolved with the response of a
\* 404 error the handler built.
C24_Witness ==
    \E r \in Requests :
        /\ task[r].pc = "done"
        /\ is_some(task[r].result[1])
        /\ unwrap(task[r].result[1]).ok
        /\ unwrap(task[r].result[1]).val.status = NOT_FOUND
        /\ unwrap(task[r].result[1]) = unwrap(task[r].result[Handler])

\* C26 - looking up the context does not consume it: a build() leaves the
\* context slot as it was, so every build() of a run of builds made by a
\* handler with nothing else in between reads the slot the first of them read
\* and is enriched by that context's enricher with that context's snapshot;
\* a step that changes the slot is a set() or a clear(), never a build().
C26_LookupKeepsContext ==
    [][/\ (is_some(lastBuild') /\ lastBuild' # lastBuild) =>
             LET lb == unwrap(lastBuild')
             IN /\ UNCHANGED ENRICHMENT_CONTEXT
                /\ lb.slot = ENRICHMENT_CONTEXT[ApiThread]
                /\ lb.slot = lb.first
                /\ lb.out.enricher_calls =
                      IF is_some(lb.first)
                      THEN <<[enricher |-> unwrap(lb.first).enricher, builder |-> lb.builder,
                              request |-> unwrap(lb.first).request]>>
                      ELSE <<>>
                /\ is_some(lb.first) =>
                      lb.out.error = finish(call_enricher(unwrap(lb.first).enricher, lb.builder,
                                                          unwrap(lb.first).request))
       /\ ENRICHMENT_CONTEXT' # ENRICHMENT_CONTEXT =>
             /\ lastBuild' = None
             /\ task' # task]_vars

\* C26 witness: the handler of a request made MaxBuilds builds in a row under
\* the context of the innermost layer, which is still installed.
C26_Witness ==
    /\ is_some(lastBuild)
    /\ unwrap(lastBuild).nth = MaxBuilds
    /\ unwrap(lastBuild).first = Some(LayerContext(NumLayers, unwrap(lastBuild).by))
    /\ unwrap(lastBuild).out.error.meta = MetaOf(unwrap(lastBuild).by)
    /\ ENRICHMENT_CONTEXT[ApiThread] = unwrap(lastBuild).first

\* C27 - no stack discipline: the set() of a layer's block leaves the slot
\* holding that layer's context whatever it held, and the clear() of a
\* returning block leaves it Absent; so an error the handler builds is
\* enriched by no enricher but the innermost layer's, with the context of the
\* innermost layer for its own request when no other request has been polled,
\* and once the block of an inner layer has returned the slot is Absent while
\* the outer blocks are still running.
C27_NoStackDiscipline ==
    /\ [](is_some(lastBuild) =>
            LET lb == unwrap(lastBuild)
            IN /\ \A k \in 1..Len(lb.out.enricher_calls) :
                     lb.out.enricher_calls[k].enricher = LayerEnricherOf(NumLayers)
               /\ is_some(lb.slot) =>
                     \E q \in Requests : unwrap(lb.slot) = LayerContext(NumLayers, q)
               /\ (\A q \in Requests \ {lb.by} : task[q].pc \in {"new", "created"}) =>
                     lb.slot = Some(LayerContext(NumLayers, lb.by)))
    /\ [](\A r \in Requests :
            (polling[ApiThread] = r /\ task[r].dir = "up" /\ task[r].at < NumLayers) =>
                ENRICHMENT_CONTEXT[ApiThread] = None)
    /\ [][\A r \in Requests :
            /\ task'[r].started # task[r].started =>
                  ENRICHMENT_CONTEXT'[ApiThread] = Some(LayerContext(task[r].at, r))
            /\ (task[r].dir = "up" /\ task'[r].at < task[r].at) =>
                  ENRICHMENT_CONTEXT'[ApiThread] = None]_vars

\* C27 witness: the block of the innermost layer has returned the response of
\* an error enriched with this request's method and URI, the block of the
\* outermost layer is still running, and the slot is Absent.
C27_Witness ==
    \E r \in Requests :
        /\ polling[ApiThread] = r
        /\ task[r].dir = "up"
        /\ task[r].at = NumLayers - 1
        /\ task[r].started = Layers
        /\ is_some(task[r].result[NumLayers])
        /\ unwrap(task[r].result[NumLayers]).ok
        /\ unwrap(task[r].result[NumLayers]).val.status = NOT_FOUND
        /\ unwrap(task[r].result[NumLayers]).val.body.meta = json_method_uri(Request(r))
        /\ ENRICHMENT_CONTEXT[ApiThread] = None

\* C29 - success passes through: an operation of ResultExt on Ok(v) returns
\* Ok(v) and one of OptionExt on Some(v) returns Ok(v), on the surface of
\* extensions.rs and on that of lib.rs, and in doing so makes no ApiError and
\* no build() call, so runs neither the enricher nor the hook.
C29_SuccessPassesThrough ==
    is_some(lastBuild) =>
        LET lb == unwrap(lastBuild)
        IN /\ (lb.surface \in {"ResultExt", "lib.ResultExt"} /\ lb.self.ok) =>
                 /\ lb.ret = Ok(lb.self.val)
                 /\ lb.ret = lb.self
                 /\ lb.made = None
                 /\ lb.created = None
           /\ (lb.surface \in {"OptionExt", "lib.OptionExt"} /\ is_some(lb.self)) =>
                 /\ lb.ret = Ok(unwrap(lb.self))
                 /\ lb.made = None
                 /\ lb.created = None

\* C29 witness: with a context and a hook installed, Some(42).context_not_found(..)
\* returned Ok(42) and nothing was built.
C29_Witness ==
    /\ is_some(lastBuild)
    /\ unwrap(lastBuild).surface = "OptionExt"
    /\ unwrap(lastBuild).op = "not_found"
    /\ unwrap(lastBuild).self = Some(42)
    /\ is_some(unwrap(lastBuild).slot)
    /\ is_some(unwrap(lastBuild).guard)
    /\ unwrap(lastBuild).ret = Ok(42)
    /\ unwrap(lastBuild).made = None

----------------------------------------------------------------------------
(* SpecExpose: the mapping operations, the helpers and build() under every  *)
(* value of the expose flag and of the environment variable                  *)

\* The builders given to build() directly, with and without a cause.
ExposeBuilders ==
    DirectBuilders \cup {builder_error(b, e) : b \in DirectBuilders, e \in Failures}

\* What an operation made, and the flag and the variable at that time.
ExposeMade(m) == [flag |-> EXPOSE_ERRORS, var |-> env, made |-> m]

InitExpose ==
    /\ ENRICHMENT_CONTEXT = [w \in Workers |-> None]
    /\ ERROR_HOOK = None
    /\ EXPOSE_ERRORS = FALSE
    /\ env \in {None} \cup {Some(v) : v \in EnvValues}
    /\ toggled = None
    /\ lastBuild = None
    /\ hook_count = <<>>
    /\ built = <<>>
    /\ installed = <<>>
    /\ task = <<>>
    /\ polling = <<>>
    /\ lock = <<>>
    /\ thr = <<>>

\* lastBuild holds the operation made last under the present flag, variable
\* and context: changing one of them starts afresh.
ExposeSetExposeErrors(expose) ==
    /\ EXPOSE_ERRORS' = expose
    /\ toggled' = Some(expose)
    /\ lastBuild' = None
    /\ UNCHANGED <<ENRICHMENT_CONTEXT, ERROR_HOOK, env, countVars, mwVars, hookVars>>

ExposeSetEnvVar(v) ==
    /\ env' = Some(v)
    /\ lastBuild' = None
    /\ UNCHANGED <<ENRICHMENT_CONTEXT, ERROR_HOOK, EXPOSE_ERRORS, toggled, countVars, mwVars,
                   hookVars>>

ExposeRemoveEnvVar ==
    /\ env' = None
    /\ lastBuild' = None
    /\ UNCHANGED <<ENRICHMENT_CONTEXT, ERROR_HOOK, EXPOSE_ERRORS, toggled, countVars, mwVars,
                   hookVars>>

ExposeContextSet(e) ==
    /\ EnrichmentContext_set(EnrichmentContext_new(from_request(Request(ApiThread)), e),
                             ApiThread)
    /\ lastBuild' = None
    /\ UNCHANGED <<ERROR_HOOK, countVars, mwVars, hookVars, flagVars>>

ExposeContextClear ==
    /\ EnrichmentContext_clear(ApiThread)
    /\ lastBuild' = None
    /\ UNCHANGED <<ERROR_HOOK, countVars, mwVars, hookVars, flagVars>>

\* builder.build()
ExposeBuild(b) ==
    /\ LET out == build(b, ENRICHMENT_CONTEXT[ApiThread], ERROR_HOOK)
       IN lastBuild' = Some(ExposeMade(Made("builder", "build", b, <<"", "">>, Some(out),
                                            out.error, Some(out.error))))
    /\ UNCHANGED <<ENRICHMENT_CONTEXT, ERROR_HOOK, countVars, mwVars, hookVars, flagVars>>

\* e.context_<op>(title, detail)
ExposeIntoApiError(op, e, x) ==
    /\ LET out == IntoApiError_context(op, e, x[1], x[2], ENRICHMENT_CONTEXT[ApiThread],
                                       ERROR_HOOK)
       IN lastBuild' = Some(ExposeMade(Made("IntoApiError", op, e, x, Some(out), out.error,
                                            Some(out.error))))
    /\ UNCHANGED <<ENRICHMENT_CONTEXT, ERROR_HOOK, countVars, mwVars, hookVars, flagVars>>

\* result.context_<op>(title, detail)
ExposeResultExt(op, res, x) ==
    /\ lastBuild' = Some(ExposeMade(MadeResult("ResultExt", op, res, x,
                            ResultExt_context(op, res, x[1], x[2],
                                              ENRICHMENT_CONTEXT[ApiThread], ERROR_HOOK))))
    /\ UNCHANGED <<ENRICHMENT_CONTEXT, ERROR_HOOK, countVars, mwVars, hookVars, flagVars>>

\* option.context_<op>(title, detail)
ExposeOptionExt(op, opt, x) ==
    /\ lastBuild' = Some(ExposeMade(MadeResult("OptionExt", op, opt, x,
                            OptionExt_context(op, opt, x[1], x[2],
                                              ENRICHMENT_CONTEXT[ApiThread], ERROR_HOOK))))
    /\ UNCHANGED <<ENRICHMENT_CONTEXT, ERROR_HOOK, countVars, mwVars, hookVars, flagVars>>

\* bad_request(title, detail) .. gateway_timeout(title, detail)
ExposeHelper(op, x) ==
    /\ LET out == helper(op, x[1], x[2], ENRICHMENT_CONTEXT[ApiThread], ERROR_HOOK)
       IN lastBuild' = Some(ExposeMade(Made("helpers", op, None, x, Some(out), out.error,
                                            Some(out.error))))
    /\ UNCHANGED <<ENRICHMENT_CONTEXT, ERROR_HOOK, countVars, mwVars, hookVars, flagVars>>

NextExpose ==
    \/ \E b \in BOOLEAN : ExposeSetExposeErrors(b)
    \/ \E v \in EnvValues : ExposeSetEnvVar(v)
    \/ ExposeRemoveEnvVar
    \/ \E e \in MapEnrichers : ExposeContextSet(e)
    \/ ExposeContextClear
    \/ \E b \in ExposeBuilders : ExposeBuild(b)
    \/ \E op \in NamedOps, e \in Failures, x \in CallerTexts : ExposeIntoApiError(op, e, x)
    \/ \E op \in NamedOps, res \in Results, x \in CallerTexts : ExposeResultExt(op, res, x)
    \/ \E op \in NamedOps, opt \in Options, x \in CallerTexts : ExposeOptionExt(op, opt, x)
    \/ \E op \in NamedOps, x \in CallerTexts : ExposeHelper(op, x)

SpecExpose == InitExpose /\ [][NextExpose]_vars

\* C28 - the expose flag affects only From: whatever the flag and the
\* environment variable hold, an error made by an operation of IntoApiError,
\* ResultExt or OptionExt or by a helper has the detail the caller passed, and
\* one made by a direct build() the detail set on the builder, the default
\* when none was set; and the message of the cause is neither its title nor
\* its detail, its meta being what the enricher or the caller set.
C28_ExposeOnlyInFrom ==
    (is_some(lastBuild) /\ is_some(unwrap(lastBuild).made.created)) =>
        LET m == unwrap(lastBuild).made
            a == unwrap(m.created)
        IN /\ a.detail = IF m.surface = "builder"
                         THEN unwrap_or(m.self.detail, "Something went wrong")
                         ELSE m.detail
           /\ m.surface # "builder" => a.title = m.title
           /\ is_some(a.error) =>
                 /\ to_string(unwrap(a.error)) # a.detail
                 /\ to_string(unwrap(a.error)) # a.title
           /\ a.meta = IF is_some(m.slot) /\ unwrap(m.slot).enricher = "meta_from_request"
                       THEN Some(json_method_uri(unwrap(m.slot).request))
                       ELSE IF m.surface = "builder" THEN m.self.meta ELSE None

\* C28 witness: with the flag set and the variable "1", the failure "boom"
\* was mapped by context_bad_request and the detail is the caller's.
C28_Witness ==
    /\ is_some(lastBuild)
    /\ unwrap(lastBuild).flag = TRUE
    /\ unwrap(lastBuild).var = Some("1")
    /\ unwrap(lastBuild).made.surface = "IntoApiError"
    /\ unwrap(lastBuild).made.op = "bad_request"
    /\ unwrap(lastBuild).made.self = anyhow("boom")
    /\ unwrap(lastBuild).made.ret.detail = "User ID must be a u32"
    /\ unwrap(lastBuild).made.ret.error = Some(anyhow("boom"))

----------------------------------------------------------------------------
(* SpecEnrich: build(), From and the mapping operations under enrichers     *)
(* that set meta, override fields or return another builder                  *)

EnrichEnrichers == {"meta_from_request", "override", "fresh"}

\* The builders given to build() directly: texts, meta and cause set or not.
EnrichBuilders ==
    { LET b0 == ApiErrorBuilder_default
          b1 == IF t THEN with_status(BAD_REQUEST, "Test Error", "This is a test") ELSE b0
          b2 == IF m THEN builder_meta(b1, json_trace_id) ELSE b1
      IN IF e THEN builder_error(b2, anyhow("boom")) ELSE b2
      : t \in BOOLEAN, m \in BOOLEAN, e \in BOOLEAN }

\* An operation that made an ApiError: the slot it ran under, the error it
\* gave, and the error the same call gives with no context installed.
Enriched(kind, self, out, plain) ==
    [kind |-> kind, self |-> self, slot |-> ENRICHMENT_CONTEXT[ApiThread],
     out |-> out, plain |-> plain]

InitEnrich ==
    /\ ENRICHMENT_CONTEXT = [w \in Workers |-> None]
    /\ ERROR_HOOK = None
    /\ EXPOSE_ERRORS = FALSE
    /\ env = None
    /\ toggled = None
    /\ lastBuild = None
    /\ hook_count = <<>>
    /\ built = <<>>
    /\ installed = <<>>
    /\ task = <<>>
    /\ polling = <<>>
    /\ lock = <<>>
    /\ thr = <<>>

EnrichContextSet(e) ==
    /\ EnrichmentContext_set(EnrichmentContext_new(from_request(Request(ApiThread)), e),
                             ApiThread)
    /\ UNCHANGED <<ERROR_HOOK, lastBuild, countVars, mwVars, hookVars, flagVars>>

EnrichContextClear ==
    /\ EnrichmentContext_clear(ApiThread)
    /\ UNCHANGED <<ERROR_HOOK, lastBuild, countVars, mwVars, hookVars, flagVars>>

\* builder.build()
EnrichBuild(b) ==
    /\ lastBuild' = Some(Enriched("build", b,
                            build(b, ENRICHMENT_CONTEXT[ApiThread], ERROR_HOOK).error,
                            build(b, None, ERROR_HOOK).error))
    /\ UNCHANGED <<ENRICHMENT_CONTEXT, ERROR_HOOK, countVars, mwVars, hookVars, flagVars>>

\* let api_err: ApiError = err.into()
EnrichFrom(e) ==
    /\ lastBuild' = Some(Enriched("from", e,
                            From(e, EXPOSE_ERRORS, env, ENRICHMENT_CONTEXT[ApiThread],
                                 ERROR_HOOK).error,
                            From(e, EXPOSE_ERRORS, env, None, ERROR_HOOK).error))
    /\ UNCHANGED <<ENRICHMENT_CONTEXT, ERROR_HOOK, countVars, mwVars, hookVars, flagVars>>

\* e.context_<op>(title, detail)
EnrichIntoApiError(op, e, x) ==
    /\ lastBuild' = Some(Enriched("IntoApiError", e,
                            IntoApiError_context(op, e, x[1], x[2],
                                                 ENRICHMENT_CONTEXT[ApiThread], ERROR_HOOK).error,
                            IntoApiError_context(op, e, x[1], x[2], None, ERROR_HOOK).error))
    /\ UNCHANGED <<ENRICHMENT_CONTEXT, ERROR_HOOK, countVars, mwVars, hookVars, flagVars>>

\* None.context_<op>(title, detail)
EnrichOptionExt(op, x) ==
    /\ lastBuild' = Some(Enriched("OptionExt", None,
                            OptionExt_context(op, None, x[1], x[2],
                                              ENRICHMENT_CONTEXT[ApiThread], ERROR_HOOK).ret.val,
                            OptionExt_context(op, None, x[1], x[2], None, ERROR_HOOK).ret.val))
    /\ UNCHANGED <<ENRICHMENT_CONTEXT, ERROR_HOOK, countVars, mwVars, hookVars, flagVars>>

\* bad_request(title, detail) .. gateway_timeout(title, detail)
EnrichHelper(op, x) ==
    /\ lastBuild' = Some(Enriched("helpers", None,
                            helper(op, x[1], x[2], ENRICHMENT_CONTEXT[ApiThread],
                                   ERROR_HOOK).error,
                            helper(op, x[1], x[2], None, ERROR_HOOK).error))
    /\ UNCHANGED <<ENRICHMENT_CONTEXT, ERROR_HOOK, countVars, mwVars, hookVars, flagVars>>

NextEnrich ==
    \/ \E e \in EnrichEnrichers : EnrichContextSet(e)
    \/ EnrichContextClear
    \/ \E b \in BOOLEAN : set_expose_errors(b)
    \/ \E b \in EnrichBuilders : EnrichBuild(b)
    \/ \E e \in Failures : EnrichFrom(e)
    \/ \E op \in NamedOps, e \in Failures, x \in CallerTexts : EnrichIntoApiError(op, e, x)
    \/ \E op \in NamedOps, x \in CallerTexts : EnrichOptionExt(op, x)
    \/ \E op \in NamedOps, x \in CallerTexts : EnrichHelper(op, x)

SpecEnrich == InitEnrich /\ [][NextEnrich]_vars

\* C30 - the enricher's returned builder is final: under an installed context
\* the error of build(), of From and of a mapping operation has the fields of
\* the builder the enricher returned, defaults filled in. Under the enricher
\* that calls meta() it is the error made without a context but for meta,
\* which is the enricher's value alone, no key of a meta the caller had set
\* remaining; under the enricher that sets status, title and detail it has
\* these three and the caller's meta and cause; under the enricher that
\* returns ApiError::builder() it has the defaults, no meta and no cause.
C30_EnricherResultIsFinal ==
    (is_some(lastBuild) /\ is_some(unwrap(lastBuild).slot)) =>
        LET lb == unwrap(lastBuild)
            ctx == unwrap(lb.slot)
        IN /\ ctx.enricher = "meta_from_request" =>
                 /\ lb.out = [lb.plain EXCEPT !.meta = Some(json_method_uri(ctx.request))]
                 /\ DOMAIN unwrap(lb.out.meta) = {"method", "uri"}
           /\ ctx.enricher = "override" =>
                 lb.out = [lb.plain EXCEPT !.status = NOT_FOUND, !.title = "Overridden",
                                           !.detail = "Overridden detail"]
           /\ ctx.enricher = "fresh" =>
                 lb.out = [status |-> 500, title |-> "Internal Error",
                           detail |-> "Something went wrong", meta |-> None, error |-> None]

\* C30 witness: under the enricher that returns ApiError::builder(), the
\* failure "boom" converted through From with the flag on gave an error with
\* the default detail and no cause.
C30_Witness ==
    /\ is_some(lastBuild)
    /\ unwrap(lastBuild).kind = "from"
    /\ unwrap(lastBuild).self = anyhow("boom")
    /\ EXPOSE_ERRORS = TRUE
    /\ is_some(unwrap(lastBuild).slot)
    /\ unwrap(unwrap(lastBuild).slot).enricher = "fresh"
    /\ unwrap(lastBuild).plain.detail = "boom"
    /\ unwrap(lastBuild).plain.error = Some(anyhow("boom"))
    /\ unwrap(lastBuild).out.detail = "Something went wrong"
    /\ unwrap(lastBuild).out.error = None

----------------------------------------------------------------------------
(* Claims about build() outside an installed context, checked under SpecApi *)

\* C14 - explicit values are preserved: with no enrichment context installed,
\* with or without a hook, the error build() returns has the status, the
\* title and the detail the caller set on the builder, each exactly as set,
\* and meta and cause as set, absent when they were not set.
C14_ExplicitValuesPreserved ==
    (is_some(lastBuild) /\ is_none(unwrap(lastBuild).slot)) =>
        LET lb == unwrap(lastBuild)
        IN /\ \A f \in {"status", "title", "detail"} :
                 is_some(lb.builder[f]) => lb.out.error[f] = unwrap(lb.builder[f])
           /\ lb.out.error.meta = lb.builder.meta
           /\ lb.out.error.error = lb.builder.error

\* C14 witness: with a hook installed and no context, a builder with all five
\* fields set gave an error with these five values.
C14_Witness ==
    /\ is_some(lastBuild)
    /\ is_none(unwrap(lastBuild).slot)
    /\ is_some(unwrap(lastBuild).guard)
    /\ unwrap(lastBuild).out.error =
          [status |-> BAD_REQUEST, title |-> "Test Error", detail |-> "This is a test",
           meta |-> Some([method |-> "caller", uri |-> 0]), error |-> Some("boom")]

====
